---- MODULE Spec2Model ----
(***************************************************************************)
(* voxflow: the per-call session orchestrator (services/streamingClient.js)*)
(* with its AudioProcessor (services/audioProcessor.js), and the gateway   *)
(* relay (services/streamServer.js, StreamClient of routes/designer.js).   *)
(*                                                                         *)
(* Node runs every handler to its first pending await without interleaving;*)
(* the ws 'message' listeners do not await handleMessage, so a handler     *)
(* suspended on a collaborator (transcription, response, file append) is   *)
(* interleaved with the handlers of later messages.  One action of the     *)
(* model is one such run-to-suspension segment.                            *)
(*                                                                         *)
(* Sample arrays are kept run-length encoded: a sequence of runs           *)
(* [n |-> count, amp |-> value] stands for the flat array of the source.   *)
(* Runs hold whole 400-sample frames (the packet of the wire format), and  *)
(* sums of squares are taken per frame, which leaves every comparison of   *)
(* an RMS with a threshold exact and within TLC's 32-bit integers.         *)
(* Strings are sequences of one-character strings.                         *)
(***************************************************************************)
EXTENDS Integers, Sequences, FiniteSets, Bags, TLC

VARIABLES
    now,                  \* Date.now(), in ms since the client was constructed
    nextInc,              \* identity of the next session/processor/buffer objects
    destroyed,            \* destroy()ed AudioProcessors a suspended call still holds
    streamingSessions,    \* ucid -> session data
    audioProcessors,      \* ucid -> AudioProcessor
    transcriptionBuffers, \* ucid -> accumulated transcription
    playbackQueues,       \* ucid -> playback queue
    isTranscribing,       \* ucid -> boolean
    isPlayingBack,        \* ucid -> boolean
    pipelines,            \* bag of the processAudioChunk calls suspended on a collaborator
    callState,            \* history: what the last lifecycle message of a ucid was
    \* StreamServer
    connections,          \* the open gateway connections
    nextConn,             \* identity of the next connection
    ucidToConnection,     \* ucid -> connection
    lastSamples,          \* _lastSamples: ucid -> last emitted sample
    timers,               \* the pending delayed unmaps, in the order they were armed
    \* StreamClient
    currentCall,          \* the call of the last start, or Null
    audioBuffers,         \* ucid -> buffered media packets
    transcriptionSessions,\* ucid -> transcription session
    stopHandlers,         \* the handleStopEvent calls suspended on a file write
    streamClient,         \* whether StreamServer was constructed with a StreamClient
    \* Observation of the relay
    started,              \* history: the ucids whose last start/stop message was a start
    lastSend,             \* what the call made by this step returned and transmitted
    \* The connection of StreamingClient to the gateway
    thisWs,               \* this.ws: the socket of the last connect(), or Null
    sockets,              \* socket -> readyState, for the sockets with events to come
    nextSocket,           \* identity of the next socket
    isConnected,          \* this.isConnected
    reconnectTimer,       \* this.reconnectTimer: a timeout, or Null
    timeouts,             \* the timeouts pending in the event loop
    nextTimer,            \* identity of the next timeout
    lifecycle,            \* history: "constructed", "running", or "shutdown"
    received              \* history: the message the last handleMessage was given,
                          \* with the time of the last packet of voice

clientVars == <<now, nextInc, destroyed, streamingSessions, audioProcessors,
                transcriptionBuffers, playbackQueues, isTranscribing, isPlayingBack,
                pipelines, callState>>

relayVars == <<connections, nextConn, ucidToConnection, lastSamples, timers,
               currentCall, audioBuffers, transcriptionSessions, stopHandlers,
               streamClient, started, lastSend>>

connVars == <<thisWs, sockets, nextSocket, isConnected, reconnectTimer, timeouts,
              nextTimer, lifecycle, received>>

vars == <<clientVars, relayVars, connVars>>

(***************************************************************************)
(* Bounds of the model.                                                    *)
(***************************************************************************)
MaxSessions == 2
MaxAudioSec == 5
MaxTicks == 1
MaxInFlight == 2
MaxConns == 2
MaxPackets == 1
MaxTimers == 2
MaxStops == 2

(***************************************************************************)
(* Program constants.                                                      *)
(***************************************************************************)
streamingBufferMs == 2000
silenceThreshold == 1000
minSpeechDuration == 1500
silenceAmplitude == 300
sampleRate == 8000
MIN_RMS == 250
MIN_DURATION_MS == 1000
PACKET_SIZE == 400

minAudioDuration == minSpeechDuration
maxAudioDuration == streamingBufferMs * 2

TickMs == silenceThreshold

Ucids == {"A", "B"}

(***************************************************************************)
(* Inputs: the sample arrays and sample rates of media messages, the       *)
(* control commands, the results of the collaborators.                     *)
(***************************************************************************)
VoicePacket == << [n |-> 32000, amp |-> 1000] >>
SilentPacket == << [n |-> 16000, amp |-> 0] >>
EmptyPacket == << >>
Packets == {VoicePacket, SilentPacket, EmptyPacket}
SampleRates == {8000}
Commands == {"pause_transcription", "resume_transcription", "unknown"}

TextOk == <<"o", "k">>
TextYou == <<"Y", "o", "u">>
TranscriptionResults == {[kind |-> "text", text |-> TextOk],
                         [kind |-> "text", text |-> TextYou],
                         [kind |-> "throw", text |-> << >>]}
ResponseResults == {"true", "false", "throw"}

(***************************************************************************)
(* Map helpers (JavaScript Map: set, delete, get of an absent key).        *)
(***************************************************************************)
EmptyMap == [k \in {} |-> FALSE]

\* A Map whose set writes the value under every key.
Put_AllKeys(m, k, v) == [x \in DOMAIN m \cup {k} |-> v]

\* A Map whose get never yields a true flag.
Truthy_Never(m, k) == FALSE

Put(m, k, v) == [x \in DOMAIN m \cup {k} |-> IF x = k THEN v ELSE m[x]]
\* A delete that removes nothing.
Del_Nothing(m, k) == m

Del(m, k) == [x \in DOMAIN m \ {k} |-> m[x]]
Truthy(m, k) == k \in DOMAIN m /\ m[k]

(***************************************************************************)
(* Sample arrays.                                                          *)
(***************************************************************************)
RECURSIVE Count(_)
Count(samples) ==
    IF samples = << >> THEN 0 ELSE Head(samples).n + Count(Tail(samples))

Frames(samples) == Count(samples) \div PACKET_SIZE

RECURSIVE SumSq(_)
SumSq(samples) ==
    IF samples = << >> THEN 0
    ELSE (Head(samples).n \div PACKET_SIZE) * Head(samples).amp * Head(samples).amp
         + SumSq(Tail(samples))

Push(buf, samples) ==
    IF samples = << >> THEN buf
    ELSE IF buf = << >> THEN samples
    ELSE IF buf[Len(buf)].amp = Head(samples).amp
         THEN SubSeq(buf, 1, Len(buf) - 1)
              \o << [n |-> buf[Len(buf)].n + Head(samples).n, amp |-> Head(samples).amp] >>
              \o Tail(samples)
         ELSE buf \o samples

(***************************************************************************)
(* AudioProcessor                                                          *)
(***************************************************************************)
NewAudioProcessor(inc, t) ==
    [inc |-> inc, samples |-> << >>, totalSamples |-> 0,
     lastAudioTime |-> t, consecutiveSilentPackets |-> 0]

detectAudioActivity(samples) ==
    SumSq(samples) > silenceAmplitude * silenceAmplitude * Frames(samples)

\* An addSamples that takes every packet for voice.
addSamples_AllVoice(processor, samples, t) ==
    IF samples = << >> THEN processor
    ELSE [processor EXCEPT
            !.samples = Push(@, samples),
            !.totalSamples = @ + Count(samples),
            !.lastAudioTime = t,
            !.consecutiveSilentPackets = 0]

addSamples(processor, samples, t) ==
    IF samples = << >> THEN processor
    ELSE [processor EXCEPT
            !.samples = Push(@, samples),
            !.totalSamples = @ + Count(samples),
            !.lastAudioTime = IF detectAudioActivity(samples) THEN t ELSE @,
            !.consecutiveSilentPackets =
                IF detectAudioActivity(samples) THEN 0 ELSE @ + 1]

getDurationMs(processor) == (processor.totalSamples * 1000) \div sampleRate

\* Silence taken for granted.
isSilent_Always(processor, t) == TRUE

isSilent(processor, t) == t - processor.lastAudioTime >= silenceThreshold

shouldSendToAPI(processor, t) ==
    LET duration == getDurationMs(processor)
        hasMinAudio == duration >= minAudioDuration
        hasMaxAudio == duration >= maxAudioDuration
        silenceDetected == isSilent(processor, t)
    IN  IF hasMaxAudio THEN TRUE
        ELSE IF silenceDetected /\ hasMinAudio THEN TRUE
        ELSE FALSE

Null == [null |-> TRUE]

toWAVBuffer(processor) ==
    IF processor.samples = << >> THEN Null
    ELSE [fileSize |-> 44 + Count(processor.samples) * 2,
          format |-> 1, numChannels |-> 1, sampleRate |-> sampleRate,
          bitsPerSample |-> 16,
          dataSize |-> Count(processor.samples) * 2,
          data |-> processor.samples]

\* The bytes of toWAVBuffer.  Buffer.write of a four-character tag, and the
\* little-endian writes of Buffer.
Tag(name) ==
    CASE name = "RIFF" -> <<82, 73, 70, 70>>
      [] name = "WAVE" -> <<87, 65, 86, 69>>
      [] name = "fmt " -> <<102, 109, 116, 32>>
      [] name = "data" -> <<100, 97, 116, 97>>

writeUInt16LE(v) == <<v % 256, (v \div 256) % 256>>

writeUInt32LE(v) ==
    <<v % 256, (v \div 256) % 256, (v \div 65536) % 256, (v \div 16777216) % 256>>

\* The two bytes the other way round.
writeInt16LE_BigEndian(v) ==
    <<(((v + 65536) % 65536) \div 256) % 256, ((v + 65536) % 65536) % 256>>

\* Two's complement of a value in -32768..32767.
writeInt16LE(v) == writeUInt16LE((v + 65536) % 65536)

\* The flat array that the runs stand for.
RECURSIVE Flatten(_)
Flatten(samples) ==
    IF samples = << >> THEN << >>
    ELSE [i \in 1..Head(samples).n |-> Head(samples).amp] \o Flatten(Tail(samples))

RECURSIVE writeSamples(_)
writeSamples(flat) ==
    IF flat = << >> THEN << >>
    ELSE LET half == Len(flat) \div 2
         IN  IF Len(flat) = 1 THEN writeInt16LE(flat[1])
             ELSE writeSamples(SubSeq(flat, 1, half))
                  \o writeSamples(SubSeq(flat, half + 1, Len(flat)))

numChannels == 1
bitsPerSample == 16
bytesPerSample == bitsPerSample \div 8

toWAVBytes(processor) ==
    IF processor.samples = << >> THEN Null
    ELSE LET dataSize == Count(processor.samples) * bytesPerSample
             fileSize == 44 + dataSize
         IN  Tag("RIFF") \o writeUInt32LE(fileSize - 8) \o Tag("WAVE")
             \o Tag("fmt ") \o writeUInt32LE(16) \o writeUInt16LE(1)
             \o writeUInt16LE(numChannels) \o writeUInt32LE(sampleRate)
             \o writeUInt32LE(sampleRate * numChannels * bytesPerSample)
             \o writeUInt16LE(numChannels * bytesPerSample)
             \o writeUInt16LE(bitsPerSample)
             \o Tag("data") \o writeUInt32LE(dataSize)
             \o writeSamples(Flatten(processor.samples))

\* A reset that empties the buffer and keeps the count.
reset_KeepsTotal(processor, t) ==
    [processor EXCEPT !.samples = << >>,
                      !.lastAudioTime = t, !.consecutiveSilentPackets = 0]

reset(processor, t) ==
    [processor EXCEPT !.samples = << >>, !.totalSamples = 0,
                      !.lastAudioTime = t, !.consecutiveSilentPackets = 0]

(***************************************************************************)
(* StreamingClient                                                         *)
(***************************************************************************)
\* A quality gate that lets every chunk through.
validateAudioChunk_Always(processor) == TRUE

validateAudioChunk(processor) ==
    IF getDurationMs(processor) < MIN_DURATION_MS THEN FALSE
    ELSE IF SumSq(processor.samples) < MIN_RMS * MIN_RMS * Frames(processor.samples)
         THEN FALSE
    ELSE TRUE

Lower(c) ==
    CASE c = "Y" -> "y"
      [] c = "T" -> "t"
      [] OTHER -> c

LowerAll(text) == [i \in 1..Len(text) |-> Lower(text[i])]

IsSpace(c) == c \in {" ", "\t", "\n"}

RECURSIVE TrimLeft(_)
TrimLeft(text) ==
    IF text # << >> /\ IsSpace(Head(text)) THEN TrimLeft(Tail(text)) ELSE text

RECURSIVE TrimRight(_)
TrimRight(text) ==
    IF text # << >> /\ IsSpace(text[Len(text)])
    THEN TrimRight(SubSeq(text, 1, Len(text) - 1)) ELSE text

Trim(text) == TrimRight(TrimLeft(text))

\* A filter that lets every text through.
isValidTranscription_Any(text) == TRUE

isValidTranscription(text) ==
    IF text = << >> \/ Len(Trim(text)) < 2 THEN FALSE
    ELSE LET t == Trim(text)
             l == LowerAll(t)
         IN ~ \/ l \in {<<"t","h","a","n","k"," ","y","o","u">>,
                        <<"t","h","a","n","k"," ","y","o","u",".">>}
              \/ l \in {<<"t","h","a","n","k","s">>, <<"t","h","a","n","k","s",".">>}
              \/ l = <<"y","o","u">>
              \/ (Len(t) >= 3 /\ \A i \in 1..Len(t) : t[i] = ".")
              \/ \A i \in 1..Len(t) : IsSpace(t[i])
              \/ (Len(t) >= 1 /\ \A i \in 1..Len(t) :
                                    IsSpace(t[i]) \/ t[i] \in {".", ",", "!", "?"})

Live(ucid) == ucid \in DOMAIN audioProcessors /\ ucid \in DOMAIN streamingSessions

RECURSIVE TotalAudioMs(_)
TotalAudioMs(S) ==
    IF S = {} THEN 0
    ELSE LET u == CHOOSE x \in S : TRUE
         IN streamingSessions[u].totalAudioMs + TotalAudioMs(S \ {u})

\* The suspended calls of a ucid, all of them or those in one phase.
InFlight(ucid) ==
    BagCardinality([p \in {q \in BagToSet(pipelines) : q.ucid = ucid} |-> pipelines[p]])

InPhase(ucid, phase) ==
    BagCardinality([p \in {q \in BagToSet(pipelines) :
                              q.ucid = ucid /\ q.phase = phase} |-> pipelines[p]])

One(p) == SetToBag({p})

\* A destroyed processor matters only while a suspended call can still reach it.
Held(D, P) == D \cap {p.inc : p \in BagToSet(P)}

handleStreamStart(ucid) ==
    /\ nextInc <= MaxSessions
    /\ streamingSessions' = Put(streamingSessions, ucid,
            [inc |-> nextInc, totalAudioMs |-> 0,
             transcriptionChunks |-> 0, playbackChunks |-> 0])
    /\ audioProcessors' = Put(audioProcessors, ucid, NewAudioProcessor(nextInc, now))
    /\ transcriptionBuffers' = Put(transcriptionBuffers, ucid,
            [inc |-> nextInc, finalText |-> << >>])
    /\ playbackQueues' = Put(playbackQueues, ucid, << >>)
    /\ isTranscribing' = Put(isTranscribing, ucid, FALSE)
    /\ isPlayingBack' = Put(isPlayingBack, ucid, FALSE)
    /\ nextInc' = nextInc + 1
    /\ callState' = [callState EXCEPT ![ucid] = "live"]
    /\ UNCHANGED <<now, destroyed, pipelines>>

\* A processAudioChunk whose finally is missing.
clearTranscribing_Skipped(ucid) == isTranscribing

\* The finally of processAudioChunk.
clearTranscribing(ucid) == Put(isTranscribing, ucid, FALSE)

\* processAudioChunk up to its first pending await, entered from
\* handleAudioChunk with the processor and session as just updated.
processAudioChunk(ucid, processor, session) ==
    IF ucid \notin DOMAIN transcriptionBuffers \/ Truthy(isTranscribing, ucid)
    THEN /\ audioProcessors' = Put(audioProcessors, ucid, processor)
         /\ UNCHANGED <<isTranscribing, pipelines>>
    ELSE IF toWAVBuffer(processor) = Null
    THEN /\ audioProcessors' = Put(audioProcessors, ucid, processor)
         /\ isTranscribing' = clearTranscribing(ucid)
         /\ UNCHANGED pipelines
    ELSE IF ~validateAudioChunk(processor)
    THEN /\ audioProcessors' = Put(audioProcessors, ucid, reset(processor, now))
         /\ isTranscribing' = clearTranscribing(ucid)
         /\ UNCHANGED pipelines
    ELSE /\ BagCardinality(pipelines) < MaxInFlight
         /\ audioProcessors' = Put(audioProcessors, ucid, processor)
         /\ isTranscribing' = Put(isTranscribing, ucid, TRUE)
         /\ pipelines' = pipelines (+)
                One([ucid |-> ucid, inc |-> processor.inc,
                     phase |-> "transcribing", wav |-> toWAVBuffer(processor),
                     respInc |-> 0])

handleAudioChunk(ucid, samples, rate) ==
    IF ~Live(ucid) \/ samples = << >>
    THEN UNCHANGED clientVars
    ELSE LET processor == addSamples(audioProcessors[ucid], samples, now)
             session == [streamingSessions[ucid] EXCEPT
                            !.totalAudioMs = @ + (Count(samples) * 1000) \div rate]
         IN /\ TotalAudioMs(DOMAIN streamingSessions) \div 1000 < MaxAudioSec
            /\ streamingSessions' = Put(streamingSessions, ucid, session)
            /\ IF shouldSendToAPI(processor, now) /\ ~Truthy(isTranscribing, ucid)
               THEN processAudioChunk(ucid, processor, session)
               ELSE /\ audioProcessors' = Put(audioProcessors, ucid, processor)
                    /\ UNCHANGED <<isTranscribing, pipelines>>
            /\ UNCHANGED <<now, nextInc, destroyed, transcriptionBuffers,
                           playbackQueues, isPlayingBack, callState>>

\* The tail of processAudioChunk after streamTranscription returned:
\* processor.reset(), session.transcriptionChunks++, finally.  reset() reads
\* this.samples.length, which throws on a destroyed processor.
ResetCaptured(p) ==
    IF p.inc \notin destroyed /\ p.ucid \in DOMAIN audioProcessors
       /\ audioProcessors[p.ucid].inc = p.inc
    THEN Put(audioProcessors, p.ucid, reset(audioProcessors[p.ucid], now))
    ELSE audioProcessors

CountChunk(sessions, p) ==
    IF p.inc \notin destroyed /\ p.ucid \in DOMAIN sessions
       /\ sessions[p.ucid].inc = p.inc
    THEN Put(sessions, p.ucid,
             [sessions[p.ucid] EXCEPT !.transcriptionChunks = @ + 1])
    ELSE sessions

\* A count of every response, played or not.
CountPlayback_Always(sessions, p, result) ==
    IF p.ucid \in DOMAIN sessions
    THEN Put(sessions, p.ucid, [sessions[p.ucid] EXCEPT !.playbackChunks = @ + 1])
    ELSE sessions

CountPlayback(sessions, p, result) ==
    IF result = "true" /\ p.ucid \in DOMAIN sessions
       /\ sessions[p.ucid].inc = p.respInc
    THEN Put(sessions, p.ucid, [sessions[p.ucid] EXCEPT !.playbackChunks = @ + 1])
    ELSE sessions

\* this.emit('transcription', ...) in streamTranscription: reached once the
\* collaborator returned a text that passes isValidTranscription.
emitsTranscription(result) ==
    result.kind # "throw" /\ isValidTranscription(result.text)

\* this.emit('response_played', ...) in generateAndPlayResponse: inside
\* if (success).
emitsResponsePlayed(result) == result = "true"

\* The transcription collaborator settles: the rest of streamTranscription.
TranscriptionDone(p, result) ==
    /\ BagIn(p, pipelines) /\ p.phase = "transcribing"
    /\ IF result.kind = "throw"
       THEN /\ pipelines' = pipelines (-) One(p)
            /\ isTranscribing' = clearTranscribing(p.ucid)
            /\ UNCHANGED <<streamingSessions, audioProcessors,
                           transcriptionBuffers, isPlayingBack>>
       ELSE IF ~isValidTranscription(result.text)
       THEN /\ pipelines' = pipelines (-) One(p)
            /\ audioProcessors' = ResetCaptured(p)
            /\ streamingSessions' = CountChunk(streamingSessions, p)
            /\ isTranscribing' = clearTranscribing(p.ucid)
            /\ UNCHANGED <<transcriptionBuffers, isPlayingBack>>
       ELSE /\ transcriptionBuffers' =
                IF p.ucid \in DOMAIN transcriptionBuffers
                THEN Put(transcriptionBuffers, p.ucid,
                         [transcriptionBuffers[p.ucid] EXCEPT !.finalText =
                            @ \o (IF @ # << >> THEN <<" ">> ELSE << >>) \o result.text])
                ELSE transcriptionBuffers
            /\ IF ~Truthy(isPlayingBack, p.ucid) /\ p.ucid \in DOMAIN streamingSessions
               THEN /\ isPlayingBack' = Put(isPlayingBack, p.ucid, TRUE)
                    /\ pipelines' = (pipelines (-) One(p)) (+)
                          One([p EXCEPT !.phase = "responding",
                                        !.respInc = streamingSessions[p.ucid].inc])
                    /\ UNCHANGED <<streamingSessions, audioProcessors, isTranscribing>>
               ELSE /\ pipelines' = pipelines (-) One(p)
                    /\ audioProcessors' = ResetCaptured(p)
                    /\ streamingSessions' = CountChunk(streamingSessions, p)
                    /\ isTranscribing' = clearTranscribing(p.ucid)
                    /\ UNCHANGED isPlayingBack
    /\ destroyed' = Held(destroyed, pipelines')
    /\ UNCHANGED <<now, nextInc, playbackQueues, callState>>

\* The response collaborator settles: the rest of generateAndPlayResponse,
\* then the tail of processAudioChunk.
ResponseDone(p, result) ==
    /\ BagIn(p, pipelines) /\ p.phase = "responding"
    /\ pipelines' = pipelines (-) One(p)
    /\ isPlayingBack' = Put(isPlayingBack, p.ucid, FALSE)
    /\ audioProcessors' = ResetCaptured(p)
    /\ streamingSessions' = CountChunk(CountPlayback(streamingSessions, p, result), p)
    /\ isTranscribing' = clearTranscribing(p.ucid)
    /\ destroyed' = Held(destroyed, pipelines')
    /\ UNCHANGED <<now, nextInc, transcriptionBuffers, playbackQueues, callState>>

cleanupSession(ucid) ==
    /\ destroyed' = IF ucid \in DOMAIN audioProcessors
                    THEN Held(destroyed \cup {audioProcessors[ucid].inc}, pipelines)
                    ELSE destroyed
    /\ audioProcessors' = Del(audioProcessors, ucid)
    /\ streamingSessions' = Del(streamingSessions, ucid)
    /\ transcriptionBuffers' = Del(transcriptionBuffers, ucid)
    /\ playbackQueues' = Del(playbackQueues, ucid)
    /\ isTranscribing' = Del(isTranscribing, ucid)
    /\ isPlayingBack' = Del(isPlayingBack, ucid)

handleStreamEnd(ucid) ==
    /\ cleanupSession(ucid)
    /\ callState' = [callState EXCEPT ![ucid] = IF @ = "none" THEN @ ELSE "ended"]
    /\ UNCHANGED <<now, nextInc, pipelines>>

\* A handleControl that takes every command but resume as a pause.
handleControl_PauseByDefault(ucid, command) ==
    /\ isTranscribing' = Put(isTranscribing, ucid, command # "resume_transcription")
    /\ UNCHANGED <<now, nextInc, destroyed, streamingSessions, audioProcessors,
                   transcriptionBuffers, playbackQueues, isPlayingBack, pipelines,
                   callState>>

handleControl(ucid, command) ==
    /\ IF command = "pause_transcription"
       THEN isTranscribing' = Put(isTranscribing, ucid, TRUE)
       ELSE IF command = "resume_transcription"
       THEN isTranscribing' = Put(isTranscribing, ucid, FALSE)
       ELSE UNCHANGED isTranscribing
    /\ callState' = [callState EXCEPT ![ucid] =
            IF command = "pause_transcription" /\ @ = "live" THEN "paused"
            ELSE IF command = "resume_transcription" /\ @ = "paused" THEN "live"
            ELSE @]
    /\ UNCHANGED <<now, nextInc, destroyed, streamingSessions, audioProcessors,
                   transcriptionBuffers, playbackQueues, isPlayingBack, pipelines>>

Tick ==
    /\ now < MaxTicks * TickMs
    /\ now' = now + TickMs
    /\ UNCHANGED <<nextInc, destroyed, streamingSessions, audioProcessors,
                   transcriptionBuffers, playbackQueues, isTranscribing,
                   isPlayingBack, pipelines, callState>>

(***************************************************************************)
(* The connection of StreamingClient to the gateway: connect(), the events *)
(* of its sockets, the reconnect timer and shutdown().  StreamClient       *)
(* (routes/designer.js 365-398, 693-725, 868-887) has the same code.       *)
(***************************************************************************)
MaxSockets == 3
MaxReconnects == 3

\* The objects new WebSocket(url) and setTimeout(...) return.
Socket(n) == [socket |-> n]
Timeout(n) == [timeout |-> n]

\* A scheduleReconnect that does not look at the pending timer.
scheduleReconnect_Always(timer, pending) ==
    /\ nextTimer <= MaxReconnects
    /\ reconnectTimer' = Timeout(nextTimer)
    /\ timeouts' = pending \cup {Timeout(nextTimer)}
    /\ nextTimer' = nextTimer + 1

\* scheduleReconnect, entered with this.reconnectTimer = timer and the
\* timeouts pending.
scheduleReconnect(timer, pending) ==
    IF timer # Null
    THEN /\ reconnectTimer' = timer
         /\ timeouts' = pending
         /\ UNCHANGED nextTimer
    ELSE /\ nextTimer <= MaxReconnects
         /\ reconnectTimer' = Timeout(nextTimer)
         /\ timeouts' = pending \cup {Timeout(nextTimer)}
         /\ nextTimer' = nextTimer + 1

clearReconnectTimer ==
    IF reconnectTimer # Null
    THEN /\ timeouts' = timeouts \ {reconnectTimer}
         /\ reconnectTimer' = Null
    ELSE UNCHANGED <<reconnectTimer, timeouts>>

\* ws.readyState === WebSocket.OPEN
isOpen(socket) ==
    socket # Null /\ socket \in DOMAIN sockets /\ sockets[socket] = "OPEN"

\* connect(), entered with this.reconnectTimer = timer and the timeouts
\* pending; new WebSocket(url) throws or gives a socket that is connecting.
connect(throws, timer, pending) ==
    IF isOpen(thisWs)
    THEN /\ reconnectTimer' = timer
         /\ timeouts' = pending
         /\ UNCHANGED <<thisWs, sockets, nextSocket, nextTimer>>
    ELSE IF throws
    THEN /\ scheduleReconnect(timer, pending)
         /\ UNCHANGED <<thisWs, sockets, nextSocket>>
    ELSE /\ nextSocket <= MaxSockets
         /\ thisWs' = Socket(nextSocket)
         /\ sockets' = Put(sockets, Socket(nextSocket), "CONNECTING")
         /\ nextSocket' = nextSocket + 1
         /\ reconnectTimer' = timer
         /\ timeouts' = pending
         /\ UNCHANGED nextTimer

initialize(throws) ==
    /\ lifecycle = "constructed"
    /\ lifecycle' = "running"
    /\ connect(throws, reconnectTimer, timeouts)
    /\ UNCHANGED <<isConnected, clientVars>>

\* The open event of a socket: handleOpen.
handleOpen(socket) ==
    /\ socket \in DOMAIN sockets /\ sockets[socket] = "CONNECTING"
    /\ sockets' = Put(sockets, socket, "OPEN")
    /\ isConnected' = TRUE
    /\ clearReconnectTimer
    /\ UNCHANGED <<thisWs, nextSocket, nextTimer, lifecycle, clientVars>>

\* The close event of a socket, whatever closed it: handleClose.
handleClose(socket) ==
    /\ socket \in DOMAIN sockets
    /\ sockets' = Del(sockets, socket)
    /\ isConnected' = FALSE
    /\ scheduleReconnect(reconnectTimer, timeouts)
    /\ UNCHANGED <<thisWs, nextSocket, lifecycle, clientVars>>

\* The error event of a socket: handleError logs and emits.
handleError(socket) ==
    /\ socket \in DOMAIN sockets
    /\ UNCHANGED <<connVars, clientVars>>

\* The callback of the reconnect timeout.
ReconnectFire(timer, throws) ==
    /\ timer \in timeouts
    /\ connect(throws, Null, timeouts \ {timer})
    /\ UNCHANGED <<isConnected, lifecycle, clientVars>>

\* scheduleReconnect() called on the initialized client, outside its own
\* handlers.
callScheduleReconnect ==
    /\ lifecycle = "running"
    /\ scheduleReconnect(reconnectTimer, timeouts)
    /\ lastSend' = [fn |-> "scheduleReconnect", pending |-> reconnectTimer # Null]
    /\ UNCHANGED <<thisWs, sockets, nextSocket, isConnected, lifecycle, clientVars>>
    /\ UNCHANGED <<connections, nextConn, ucidToConnection, lastSamples, timers,
                   currentCall, audioBuffers, transcriptionSessions, stopHandlers,
                   streamClient, started>>

\* The keys K removed from the map m.
Drop(m, K) == [x \in DOMAIN m \ K |-> m[x]]

\* shutdown(): cleanupSession for every key of streamingSessions, then
\* ws.close() and this.ws = null.
shutdown ==
    /\ lifecycle = "running"
    /\ lifecycle' = "shutdown"
    /\ clearReconnectTimer
    /\ LET K == DOMAIN streamingSessions
       IN  /\ destroyed' = Held(destroyed \cup {audioProcessors[u].inc :
                                                u \in K \cap DOMAIN audioProcessors},
                                pipelines)
           /\ audioProcessors' = Drop(audioProcessors, K)
           /\ streamingSessions' = Drop(streamingSessions, K)
           /\ transcriptionBuffers' = Drop(transcriptionBuffers, K)
           /\ playbackQueues' = Drop(playbackQueues, K)
           /\ isTranscribing' = Drop(isTranscribing, K)
           /\ isPlayingBack' = Drop(isPlayingBack, K)
    /\ sockets' = IF thisWs # Null /\ thisWs \in DOMAIN sockets
                  THEN Put(sockets, thisWs, "CLOSING") ELSE sockets
    /\ thisWs' = Null
    /\ isConnected' = FALSE
    /\ UNCHANGED <<nextSocket, nextTimer, now, nextInc, pipelines, callState>>

\* The state the constructor leaves.
ConnInit ==
    /\ thisWs = Null
    /\ sockets = EmptyMap
    /\ nextSocket = 1
    /\ isConnected = FALSE
    /\ reconnectTimer = Null
    /\ timeouts = {}
    /\ nextTimer = 1
    /\ lifecycle = "constructed"
    /\ received = Null

ClientInit ==
    /\ ConnInit
    /\ now = 0
    /\ nextInc = 1
    /\ destroyed = {}
    /\ streamingSessions = EmptyMap
    /\ audioProcessors = EmptyMap
    /\ transcriptionBuffers = EmptyMap
    /\ playbackQueues = EmptyMap
    /\ isTranscribing = EmptyMap
    /\ isPlayingBack = EmptyMap
    /\ pipelines = EmptyBag
    /\ callState = [u \in Ucids |-> "none"]

(***************************************************************************)
(* The relay path: StreamServer.handleMessage forwards every message to    *)
(* StreamClient.handleMessage without awaiting it.  The periodic           *)
(* transcription of StreamClient (every 50th media packet) and the media   *)
(* packet count StreamServer keeps for its log lie beyond MaxPackets and   *)
(* are left out.                                                           *)
(***************************************************************************)
RelayRates == {8000, 16000}

Without(seq, i) == SubSeq(seq, 1, i - 1) \o SubSeq(seq, i + 1, Len(seq))

\* History: the pending unmaps (stop handlers) of a ucid that a later start
\* of the same ucid has overtaken.
Overtake(seq, ucid) ==
    [i \in 1..Len(seq) |->
        IF seq[i].ucid = ucid THEN [seq[i] EXCEPT !.overtaken = TRUE] ELSE seq[i]]

handleStartEvent(ucid) ==
    /\ currentCall' = [ucid |-> ucid, mediaPackets |-> 0, firstMediaReceived |-> FALSE]
    /\ audioBuffers' = Put(audioBuffers, ucid, << >>)
    /\ transcriptionSessions' = Put(transcriptionSessions, ucid,
            [chunks |-> << >>, finalTranscription |-> << >>, totalChunks |-> 0])
    /\ stopHandlers' = Overtake(stopHandlers, ucid)

\* The guard of handleMediaEvent and handleStopEvent.
isCurrentCall(ucid) == currentCall # Null /\ currentCall.ucid = ucid

handleMediaEvent(ucid, rate) ==
    IF ~isCurrentCall(ucid)
    THEN UNCHANGED <<currentCall, audioBuffers, transcriptionSessions, stopHandlers>>
    ELSE IF ~currentCall.firstMediaReceived /\ rate = 16000
    THEN /\ currentCall' = [currentCall EXCEPT !.firstMediaReceived = TRUE]
         /\ UNCHANGED <<audioBuffers, transcriptionSessions, stopHandlers>>
    ELSE IF rate = 8000
    THEN /\ currentCall.mediaPackets < MaxPackets
         /\ currentCall' = [currentCall EXCEPT !.firstMediaReceived = TRUE,
                                               !.mediaPackets = @ + 1]
         /\ audioBuffers' =
                IF ucid \in DOMAIN audioBuffers
                THEN Put(audioBuffers, ucid,
                         Append(audioBuffers[ucid],
                                [sampleRate |-> rate, numberOfFrames |-> PACKET_SIZE]))
                ELSE audioBuffers
         /\ UNCHANGED <<transcriptionSessions, stopHandlers>>
    ELSE /\ currentCall' = [currentCall EXCEPT !.firstMediaReceived = TRUE]
         /\ UNCHANGED <<audioBuffers, transcriptionSessions, stopHandlers>>

\* saveAudioBuffer returns at once without a buffer to save; otherwise the
\* handler is suspended on the write of the file.
AfterFinalize(ucid, buffers) ==
    IF ucid \in DOMAIN buffers /\ buffers[ucid] # << >> THEN "save" ELSE "log"

\* handleStopEvent up to its first pending file operation: finalizeTranscription
\* awaits logEvent before it deletes the session.
handleStopEvent(ucid) ==
    IF ~isCurrentCall(ucid)
    THEN UNCHANGED <<currentCall, audioBuffers, transcriptionSessions, stopHandlers>>
    ELSE /\ stopHandlers' = Append(stopHandlers,
                [ucid |-> ucid, overtaken |-> FALSE,
                 pc |-> IF ucid \in DOMAIN transcriptionSessions
                        THEN "finalize" ELSE AfterFinalize(ucid, audioBuffers)])
         /\ UNCHANGED <<currentCall, audioBuffers, transcriptionSessions>>

\* A file operation completes and the suspended stop handler goes on to its
\* next one, or to its end.
StopResume(i) ==
    /\ i \in 1..Len(stopHandlers)
    /\ LET h == stopHandlers[i]
       IN  IF h.pc = "finalize"
           THEN /\ transcriptionSessions' = Del(transcriptionSessions, h.ucid)
                /\ stopHandlers' = [stopHandlers EXCEPT
                                        ![i].pc = AfterFinalize(h.ucid, audioBuffers)]
                /\ UNCHANGED <<currentCall, audioBuffers>>
           ELSE IF h.pc = "save"
           THEN /\ stopHandlers' = [stopHandlers EXCEPT ![i].pc = "log"]
                /\ UNCHANGED <<currentCall, audioBuffers, transcriptionSessions>>
           ELSE /\ audioBuffers' = Del(audioBuffers, h.ucid)
                /\ currentCall' = Null
                /\ stopHandlers' = Without(stopHandlers, i)
                /\ UNCHANGED transcriptionSessions
    /\ lastSend' = Null
    /\ UNCHANGED <<connections, nextConn, ucidToConnection, lastSamples, timers, started,
                   streamClient>>

\* The end of StreamServer.handleMessage: the message goes to the StreamClient,
\* when there is one, and its handler is not awaited.
Forward(handler) ==
    IF streamClient THEN handler
    ELSE UNCHANGED <<currentCall, audioBuffers, transcriptionSessions, stopHandlers>>

handleConnection ==
    /\ nextConn <= MaxConns
    /\ connections' = connections \cup {nextConn}
    /\ nextConn' = nextConn + 1
    /\ lastSend' = Null
    /\ UNCHANGED <<ucidToConnection, lastSamples, timers, currentCall, audioBuffers,
                   transcriptionSessions, stopHandlers, started,
                   streamClient>>

ConnectionClosed(ws) ==
    /\ ws \in connections
    /\ connections' = connections \ {ws}
    /\ lastSend' = Null
    /\ UNCHANGED <<nextConn, ucidToConnection, lastSamples, timers, currentCall,
                   audioBuffers, transcriptionSessions, stopHandlers, started,
                   streamClient>>

\* StreamServer.handleMessage for a start, with StreamClient.handleStartEvent.
ServerStart(ws, ucid) ==
    /\ ws \in connections
    /\ ucidToConnection' = Put(ucidToConnection, ucid, ws)
    /\ lastSamples' = Put(lastSamples, ucid, 0)
    /\ timers' = Overtake(timers, ucid)
    /\ Forward(handleStartEvent(ucid))
    /\ started' = started \cup {ucid}
    /\ lastSend' = Null
    /\ UNCHANGED <<connections, nextConn, streamClient>>

\* StreamServer.handleMessage for a stop, with StreamClient.handleStopEvent.
ServerStop(ws, ucid) ==
    /\ ws \in connections
    /\ Len(timers) < MaxTimers
    /\ Len(stopHandlers) < MaxStops
    /\ lastSamples' = Del(lastSamples, ucid)
    /\ timers' = Append(timers, [ucid |-> ucid, overtaken |-> FALSE])
    /\ Forward(handleStopEvent(ucid))
    /\ started' = started \ {ucid}
    /\ lastSend' = Null
    /\ UNCHANGED <<connections, nextConn, ucidToConnection, streamClient>>

ServerMedia(ws, ucid, rate) ==
    /\ ws \in connections
    /\ Forward(handleMediaEvent(ucid, rate))
    /\ lastSend' = Null
    /\ UNCHANGED <<connections, nextConn, ucidToConnection, lastSamples, timers, started,
                   streamClient>>

\* A payload that is not JSON, or an event neither side knows.
ServerOther(ws) ==
    /\ ws \in connections
    /\ lastSend' = Null
    /\ UNCHANGED <<connections, nextConn, ucidToConnection, lastSamples, timers,
                   currentCall, audioBuffers, transcriptionSessions, stopHandlers,
                   started,
                   streamClient>>

\* The 10 s timer of the oldest pending stop fires.
TimerFire ==
    /\ timers # << >>
    /\ ucidToConnection' = Del(ucidToConnection, Head(timers).ucid)
    /\ timers' = Tail(timers)
    /\ lastSend' = Null
    /\ UNCHANGED <<connections, nextConn, lastSamples, currentCall, audioBuffers,
                   transcriptionSessions, stopHandlers, started,
                   streamClient>>

(***************************************************************************)
(* Outbound audio: StreamServer.sendAudioToOzonetel and sendControlMessage. *)
(* Sample arrays are sequences of integers here.                           *)
(***************************************************************************)
RelaySamples == {<< >>, <<100, 300>>}
ServerCommands == {"clear_buffer"}

\* Math.round(num / den) for den > 0: halves go up.
Round(num, den) == (2 * num + den) \div (2 * den)

\* The sum of samples[lo..hi], by halves.
RECURSIVE SumRange(_, _, _)
SumRange(samples, lo, hi) ==
    IF lo > hi THEN 0
    ELSE IF lo = hi THEN samples[lo]
    ELSE LET mid == (lo + hi) \div 2
         IN  SumRange(samples, lo, mid) + SumRange(samples, mid + 1, hi)

SumOf(samples) == SumRange(samples, 1, Len(samples))

Min(a, b) == IF a < b THEN a ELSE b

\* No removal at all.
removeDCOffset_None(samples) == samples

removeDCOffset(samples) ==
    IF samples = << >> THEN samples
    ELSE LET sum == SumOf(samples)
             length == Len(samples)
         IN  [i \in 1..length |-> Round(samples[i] * length - sum, length)]

\* No crossfade at all.
applyCrossfade_None(ucid, samples) == samples

applyCrossfade(ucid, samples) ==
    IF samples = << >> THEN samples
    ELSE LET lastSample == IF ucid \in DOMAIN lastSamples THEN lastSamples[ucid] ELSE 0
             fadeLength == Min(20, Len(samples))
         IN  IF lastSample = 0 THEN samples
             ELSE [i \in 1..Len(samples) |->
                     IF i <= fadeLength
                     THEN Round(lastSample * (fadeLength - (i - 1))
                                + samples[i] * (i - 1), fadeLength)
                     ELSE samples[i]]

\* A padding with zeros.
applyFadeoutPadding_Zeros(samples, targetSize) ==
    samples \o [i \in 1..(targetSize - Len(samples)) |-> 0]

applyFadeoutPadding(samples, targetSize) ==
    IF Len(samples) >= targetSize THEN samples
    ELSE LET paddingNeeded == targetSize - Len(samples)
             lastValue == IF samples = << >> THEN 0 ELSE samples[Len(samples)]
         IN  samples \o [i \in 1..paddingNeeded |->
                            Round(lastValue * (paddingNeeded - (i - 1)), paddingNeeded)]

\* The loop of sendAudioToOzonetel: the packets handed to ws.send, in order.
Packetize(ucid, smoothedSamples) ==
    LET chunkAt(k) ==
            LET chunk == SubSeq(smoothedSamples, (k - 1) * PACKET_SIZE + 1,
                                Min(k * PACKET_SIZE, Len(smoothedSamples)))
            IN  IF Len(chunk) < PACKET_SIZE
                THEN applyFadeoutPadding(chunk, PACKET_SIZE) ELSE chunk
        chunks == [k \in 1..((Len(smoothedSamples) + PACKET_SIZE - 1) \div PACKET_SIZE)
                      |-> chunkAt(k)]
        packet(chunk) == [type |-> "media", ucid |-> ucid, samples |-> chunk,
                          bitsPerSample |-> 16, sampleRate |-> 8000,
                          channelCount |-> 1, numberOfFrames |-> Len(chunk)]
        full == SelectSeq(chunks, LAMBDA c : Len(c) = PACKET_SIZE)
    IN  [k \in 1..Len(full) |-> packet(full[k])]

\* A guard that looks at the mapping only, not at the readyState.
hasOpenConnection_MappedOnly(ucid) == ucid \in DOMAIN ucidToConnection

\* The guard of both send functions: a mapped connection whose readyState is OPEN.
hasOpenConnection(ucid) ==
    ucid \in DOMAIN ucidToConnection /\ ucidToConnection[ucid] \in connections

sendAudioToOzonetel(ucid, samples) ==
    /\ IF ~hasOpenConnection(ucid)
       THEN /\ lastSend' = [fn |-> "audio", ucid |-> ucid, ok |-> FALSE,
                                given |-> Len(samples), shaped |-> << >>,
                                sent |-> << >>]
            /\ UNCHANGED lastSamples
       ELSE \E smoothedSamples \in
                    {SubSeq(applyCrossfade(ucid, removeDCOffset(samples)), 1, Len(samples))} :
                /\ lastSend' = [fn |-> "audio", ucid |-> ucid, ok |-> TRUE,
                                given |-> Len(samples),
                                shaped |-> smoothedSamples,
                                sent |-> Packetize(ucid, smoothedSamples)]
                /\ lastSamples' =
                      IF smoothedSamples # << >>
                      THEN Put(lastSamples, ucid, smoothedSamples[Len(smoothedSamples)])
                      ELSE lastSamples
    /\ UNCHANGED <<connections, nextConn, ucidToConnection, timers, currentCall,
                   audioBuffers, transcriptionSessions, stopHandlers, started,
                   streamClient>>

sendControlMessage(ucid, command) ==
    /\ lastSend' =
          IF ~hasOpenConnection(ucid)
          THEN [fn |-> "control", ucid |-> ucid, ok |-> FALSE, given |-> 0,
                sent |-> << >>]
          ELSE [fn |-> "control", ucid |-> ucid, ok |-> TRUE, given |-> 0,
                sent |-> << [event |-> "control", ucid |-> ucid, command |-> command] >>]
    /\ UNCHANGED <<connections, nextConn, ucidToConnection, lastSamples, timers,
                   currentCall, audioBuffers, transcriptionSessions, stopHandlers,
                   started,
                   streamClient>>

RelayInit ==
    /\ connections = {}
    /\ nextConn = 1
    /\ ucidToConnection = EmptyMap
    /\ lastSamples = EmptyMap
    /\ timers = << >>
    /\ currentCall = Null
    /\ audioBuffers = EmptyMap
    /\ transcriptionSessions = EmptyMap
    /\ stopHandlers = << >>
    /\ started = {}
    /\ lastSend = Null
    /\ streamClient = TRUE

\* A StreamServer constructed without a StreamClient: handleMessage forwards
\* nothing, the state of the server is all there is.
ServerInit ==
    /\ connections = {}
    /\ nextConn = 1
    /\ ucidToConnection = EmptyMap
    /\ lastSamples = EmptyMap
    /\ timers = << >>
    /\ currentCall = Null
    /\ audioBuffers = EmptyMap
    /\ transcriptionSessions = EmptyMap
    /\ stopHandlers = << >>
    /\ started = {}
    /\ lastSend = Null
    /\ streamClient = FALSE

NextRelay ==
    \/ handleConnection /\ UNCHANGED <<clientVars, connVars>>
    \/ \E ws \in connections : ConnectionClosed(ws) /\ UNCHANGED <<clientVars, connVars>>
    \/ \E ws \in connections, u \in Ucids : ServerStart(ws, u) /\ UNCHANGED <<clientVars, connVars>>
    \/ \E ws \in connections, u \in Ucids : ServerStop(ws, u) /\ UNCHANGED <<clientVars, connVars>>
    \/ \E ws \in connections, u \in Ucids, r \in RelayRates :
            ServerMedia(ws, u, r) /\ UNCHANGED <<clientVars, connVars>>
    \/ \E ws \in connections : ServerOther(ws) /\ UNCHANGED <<clientVars, connVars>>
    \/ \E i \in 1..Len(stopHandlers) : StopResume(i) /\ UNCHANGED <<clientVars, connVars>>
    \/ TimerFire /\ UNCHANGED <<clientVars, connVars>>

NextServer ==
    \/ handleConnection /\ UNCHANGED <<clientVars, connVars>>
    \/ \E ws \in connections : ConnectionClosed(ws) /\ UNCHANGED <<clientVars, connVars>>
    \/ \E ws \in connections, u \in Ucids : ServerStart(ws, u) /\ UNCHANGED <<clientVars, connVars>>
    \/ \E ws \in connections, u \in Ucids : ServerStop(ws, u) /\ UNCHANGED <<clientVars, connVars>>
    \/ \E ws \in connections, u \in Ucids, r \in RelayRates :
            ServerMedia(ws, u, r) /\ UNCHANGED <<clientVars, connVars>>
    \/ \E ws \in connections : ServerOther(ws) /\ UNCHANGED <<clientVars, connVars>>
    \/ TimerFire /\ UNCHANGED <<clientVars, connVars>>
    \/ \E u \in Ucids, s \in RelaySamples :
            sendAudioToOzonetel(u, s) /\ UNCHANGED <<clientVars, connVars>>
    \/ \E u \in Ucids, c \in ServerCommands :
            sendControlMessage(u, c) /\ UNCHANGED <<clientVars, connVars>>

Init == ClientInit /\ RelayInit

Next ==
    \/ \E u \in Ucids : handleStreamStart(u) /\ UNCHANGED <<relayVars, connVars>>
    \/ \E u \in Ucids, s \in Packets, r \in SampleRates :
            handleAudioChunk(u, s, r) /\ UNCHANGED <<relayVars, connVars>>
    \/ \E u \in Ucids, c \in Commands : handleControl(u, c) /\ UNCHANGED <<relayVars, connVars>>
    \/ \E u \in Ucids : handleStreamEnd(u) /\ UNCHANGED <<relayVars, connVars>>
    \/ \E p \in BagToSet(pipelines), r \in TranscriptionResults :
            TranscriptionDone(p, r) /\ UNCHANGED <<relayVars, connVars>>
    \/ \E p \in BagToSet(pipelines), r \in ResponseResults :
            ResponseDone(p, r) /\ UNCHANGED <<relayVars, connVars>>
    \/ Tick /\ UNCHANGED <<relayVars, connVars>>

Spec == Init /\ [][Next]_vars

SpecRelay == Init /\ [][NextRelay]_vars

\* StreamingClient with media messages at 8000 Hz and at 16000 Hz.
NextRate ==
    \/ \E u \in Ucids : handleStreamStart(u) /\ UNCHANGED <<relayVars, connVars>>
    \/ \E u \in Ucids, s \in Packets, r \in RelayRates :
            handleAudioChunk(u, s, r) /\ UNCHANGED <<relayVars, connVars>>
    \/ \E u \in Ucids : handleStreamEnd(u) /\ UNCHANGED <<relayVars, connVars>>
    \/ \E p \in BagToSet(pipelines), r \in TranscriptionResults :
            TranscriptionDone(p, r) /\ UNCHANGED <<relayVars, connVars>>
    \/ \E p \in BagToSet(pipelines), r \in ResponseResults :
            ResponseDone(p, r) /\ UNCHANGED <<relayVars, connVars>>

SpecRate == Init /\ [][NextRate]_vars

InitServer == ClientInit /\ ServerInit

\* The sample arrays given to sendAudioToOzonetel where the shaping and the
\* packets are looked at: a tone and a step, of lengths around the packet size.
AudioLengths == {0, 400, 401, 950}
Tone(n) == [i \in 1..n |-> ((i * 37) % 201) * 10 - 500]
Step(n) == [i \in 1..n |-> IF 2 * i <= n THEN -2000 ELSE 3000]
AudioArrays == {Tone(n) : n \in AudioLengths} \cup {Step(399)}

NextSend ==
    \/ handleConnection /\ UNCHANGED <<clientVars, connVars>>
    \/ \E ws \in connections, u \in Ucids : ServerStart(ws, u) /\ UNCHANGED <<clientVars, connVars>>
    \/ \E u \in Ucids, s \in AudioArrays :
            sendAudioToOzonetel(u, s) /\ UNCHANGED <<clientVars, connVars>>

SpecSend == InitServer /\ [][NextSend]_vars

SpecServer == InitServer /\ [][NextServer]_vars

\* StreamingClient and its connection: a stream_start arrives on an open socket.
NextConn ==
    \/ \E throws \in BOOLEAN : initialize(throws) /\ UNCHANGED <<relayVars, received>>
    \/ \E s \in DOMAIN sockets : handleOpen(s) /\ UNCHANGED <<relayVars, received>>
    \/ \E s \in DOMAIN sockets : handleClose(s) /\ UNCHANGED <<relayVars, received>>
    \/ \E s \in DOMAIN sockets : handleError(s) /\ UNCHANGED <<relayVars, received>>
    \/ \E t \in timeouts, throws \in BOOLEAN :
            ReconnectFire(t, throws) /\ UNCHANGED <<relayVars, received>>
    \/ shutdown /\ UNCHANGED <<relayVars, received>>
    \/ callScheduleReconnect /\ UNCHANGED received
    \/ \E s \in DOMAIN sockets, u \in Ucids :
            /\ sockets[s] = "OPEN"
            /\ handleStreamStart(u)
            /\ UNCHANGED <<relayVars, connVars>>

SpecConn == Init /\ [][NextConn]_vars

(***************************************************************************)
(* The two handleMessage with the payloads they do not act on: a payload   *)
(* JSON.parse throws on (or parses to null), an event no case names, a     *)
(* control command no case names.                                          *)
(***************************************************************************)
Msg(to, malformed, event, ucid, command) ==
    [to |-> to, malformed |-> malformed, event |-> event, ucid |-> ucid,
     command |-> command]

ServerMessages ==
    {Msg("StreamServer", FALSE, e, u, "") : e \in {"start", "ping"}, u \in Ucids}
    \cup {Msg("StreamServer", TRUE, "", "", "")}

ClientMessages ==
    {Msg("StreamingClient", FALSE, e, u, "") : e \in {"stream_start", "ping"},
                                               u \in Ucids}
    \cup {Msg("StreamingClient", FALSE, "control", u, c) : u \in Ucids, c \in Commands}
    \cup {Msg("StreamingClient", TRUE, "", "", "")}

\* StreamServer.handleMessage(ws, data, connectionId)
StreamServerMessage(ws, message) ==
    /\ received' = message
    /\ IF ~message.malformed /\ message.event = "start"
       THEN ServerStart(ws, message.ucid)
       ELSE ServerOther(ws)
    /\ UNCHANGED <<clientVars, thisWs, sockets, nextSocket, isConnected,
                   reconnectTimer, timeouts, nextTimer, lifecycle>>

\* StreamingClient.handleMessage(data)
StreamingClientMessage(message) ==
    /\ received' = message
    /\ IF message.malformed THEN UNCHANGED clientVars
       ELSE IF message.event = "stream_start" THEN handleStreamStart(message.ucid)
       ELSE IF message.event = "control"
       THEN handleControl(message.ucid, message.command)
       ELSE UNCHANGED clientVars
    /\ UNCHANGED <<relayVars, thisWs, sockets, nextSocket, isConnected,
                   reconnectTimer, timeouts, nextTimer, lifecycle>>

NextDrop ==
    \/ /\ handleConnection
       /\ received' = Null
       /\ UNCHANGED <<clientVars, thisWs, sockets, nextSocket, isConnected,
                      reconnectTimer, timeouts, nextTimer, lifecycle>>
    \/ \E ws \in connections, m \in ServerMessages : StreamServerMessage(ws, m)
    \/ \E m \in ClientMessages : StreamingClientMessage(m)

SpecDrop == Init /\ [][NextDrop]_vars

(***************************************************************************)
(* One AudioProcessor on its own, as StreamingClient configures it: media  *)
(* packets of half a second, the clock, reset() and shouldSendToAPI().     *)
(***************************************************************************)
MaxSilenceTicks == 3
HalfSecondMs == 500
VoiceHalf == << [n |-> 4000, amp |-> 1000] >>
SilentHalf == << [n |-> 4000, amp |-> 0] >>
HalfPackets == {VoiceHalf, SilentHalf}

TheCall == CHOOSE u \in Ucids : TRUE

InitAudio ==
    /\ RelayInit
    /\ ConnInit
    /\ now = 0
    /\ nextInc = 2
    /\ destroyed = {}
    /\ streamingSessions = EmptyMap
    /\ audioProcessors = Put(EmptyMap, TheCall, NewAudioProcessor(1, 0))
    /\ transcriptionBuffers = EmptyMap
    /\ playbackQueues = EmptyMap
    /\ isTranscribing = EmptyMap
    /\ isPlayingBack = EmptyMap
    /\ pipelines = EmptyBag
    /\ callState = [u \in Ucids |-> "none"]

AudioVars == <<nextInc, destroyed, streamingSessions, transcriptionBuffers,
               playbackQueues, isTranscribing, isPlayingBack, pipelines, callState,
               connections, nextConn, ucidToConnection, lastSamples, timers,
               currentCall, audioBuffers, transcriptionSessions, stopHandlers,
               streamClient, started, connVars>>

AudioAdd(samples) ==
    /\ getDurationMs(audioProcessors[TheCall]) < MaxAudioSec * 1000
    /\ audioProcessors' = Put(audioProcessors, TheCall,
                              addSamples(audioProcessors[TheCall], samples, now))
    /\ lastSend' = Null
    /\ UNCHANGED <<now, AudioVars>>

AudioReset ==
    /\ audioProcessors' = Put(audioProcessors, TheCall,
                              reset(audioProcessors[TheCall], now))
    /\ lastSend' = Null
    /\ UNCHANGED <<now, AudioVars>>

AudioTick ==
    /\ now < MaxSilenceTicks * HalfSecondMs
    /\ now' = now + HalfSecondMs
    /\ lastSend' = Null
    /\ UNCHANGED <<audioProcessors, AudioVars>>

AudioShouldSend ==
    /\ lastSend' = [fn |-> "shouldSendToAPI", ucid |-> TheCall,
                    ok |-> shouldSendToAPI(audioProcessors[TheCall], now),
                    given |-> 0, sent |-> << >>]
    /\ UNCHANGED <<now, audioProcessors, AudioVars>>

NextAudio ==
    \/ \E s \in HalfPackets : AudioAdd(s)
    \/ AudioReset
    \/ AudioTick
    \/ AudioShouldSend

SpecAudio == InitAudio /\ [][NextAudio]_vars

\* The same processor when addSamples is also called with an empty array.
NextBuffer ==
    \/ \E s \in HalfPackets \cup {EmptyPacket} : AudioAdd(s)
    \/ AudioReset
    \/ AudioTick
    \/ AudioShouldSend

SpecBuffer == InitAudio /\ [][NextBuffer]_vars

\* The processor of a call that is never reset: packets of voice and of
\* silence arrive, time passes, shouldSendToAPI is asked.
MediaAdd(samples) ==
    /\ getDurationMs(audioProcessors[TheCall]) < MaxAudioSec * 1000
    /\ audioProcessors' = Put(audioProcessors, TheCall,
                              addSamples(audioProcessors[TheCall], samples, now))
    /\ received' = IF samples = VoiceHalf
                   THEN [event |-> "media", ucid |-> TheCall, lastVoice |-> now]
                   ELSE received
    /\ lastSend' = Null
    /\ UNCHANGED <<now, nextInc, destroyed, streamingSessions, transcriptionBuffers,
                   playbackQueues, isTranscribing, isPlayingBack, pipelines, callState,
                   connections, nextConn, ucidToConnection, lastSamples, timers,
                   currentCall, audioBuffers, transcriptionSessions, stopHandlers,
                   streamClient, started, thisWs, sockets, nextSocket, isConnected,
                   reconnectTimer, timeouts, nextTimer, lifecycle>>

NextSilence ==
    \/ \E s \in HalfPackets : MediaAdd(s)
    \/ AudioTick
    \/ AudioShouldSend

SpecSilence == InitAudio /\ [][NextSilence]_vars

(***************************************************************************)
(* The shaping functions of StreamServer on their own: _removeDCOffset and *)
(* _applyCrossfade applied to arrays of 16-bit samples, for a call whose   *)
(* last emitted sample is absent, zero or any other value.                 *)
(***************************************************************************)
INT16_MIN == -32768
INT16_MAX == 32767
FADE_LENGTH == 20

ShapeLasts == {INT16_MIN, -300, -1, 0, 1, 7, INT16_MAX}
ShapeValues == {INT16_MIN, -1, 0, 1, INT16_MAX}
ShortLen == 3
ShapeLengths == {1, 2, FADE_LENGTH - 1, FADE_LENGTH, FADE_LENGTH + 1, FADE_LENGTH + 5}

Ramp(n) == [i \in 1..n |-> i * 1000 - 9000]
Flat(n, v) == [i \in 1..n |-> v]
ShortArrays == UNION {[1..n -> ShapeValues] : n \in 0..ShortLen}
ShapeArrays ==
    ShortArrays \cup {Ramp(n) : n \in ShapeLengths}
                \cup {Flat(n, v) : n \in ShapeLengths, v \in {INT16_MIN, INT16_MAX}}

InitShape ==
    /\ ClientInit
    /\ connections = {}
    /\ nextConn = 1
    /\ ucidToConnection = EmptyMap
    /\ lastSamples \in {EmptyMap} \cup {Put(EmptyMap, TheCall, l) : l \in ShapeLasts}
    /\ timers = << >>
    /\ currentCall = Null
    /\ audioBuffers = EmptyMap
    /\ transcriptionSessions = EmptyMap
    /\ stopHandlers = << >>
    /\ started = {}
    /\ lastSend = Null
    /\ streamClient = FALSE

ShapeVars == <<clientVars, connections, nextConn, ucidToConnection, lastSamples,
               timers, currentCall, audioBuffers, transcriptionSessions,
               stopHandlers, streamClient, started, connVars>>

ShapeRemoveDCOffset(samples) ==
    /\ lastSend' = [fn |-> "_removeDCOffset", ucid |-> TheCall,
                    input |-> samples, output |-> removeDCOffset(samples)]
    /\ UNCHANGED ShapeVars

ShapeApplyCrossfade(samples) ==
    /\ lastSend' = [fn |-> "_applyCrossfade", ucid |-> TheCall,
                    input |-> samples, output |-> applyCrossfade(TheCall, samples)]
    /\ UNCHANGED ShapeVars

NextShape ==
    \/ \E s \in ShapeArrays : ShapeRemoveDCOffset(s)
    \/ \E s \in ShapeArrays : ShapeApplyCrossfade(s)

SpecShape == InitShape /\ [][NextShape]_vars

(***************************************************************************)
(* One AudioProcessor and its WAV: packets of one frame of a 16-bit value, *)
(* and toWAVBuffer() as the bytes it writes.                               *)
(***************************************************************************)
MaxWavFrames == 2
WavValues == {INT16_MIN, -257, -256, -1, 0, 1, 255, 256, INT16_MAX}
WavPackets == {<< [n |-> PACKET_SIZE, amp |-> v] >> : v \in WavValues}

WavAdd(samples) ==
    /\ audioProcessors[TheCall].totalSamples < MaxWavFrames * PACKET_SIZE
    /\ audioProcessors' = Put(audioProcessors, TheCall,
                              addSamples(audioProcessors[TheCall], samples, now))
    /\ lastSend' = Null
    /\ UNCHANGED <<now, AudioVars>>

WavEncode ==
    /\ lastSend' = [fn |-> "toWAVBuffer", ucid |-> TheCall,
                    output |-> toWAVBytes(audioProcessors[TheCall])]
    /\ UNCHANGED <<now, audioProcessors, AudioVars>>

NextWav ==
    \/ \E s \in WavPackets : WavAdd(s)
    \/ AudioReset
    \/ WavEncode

SpecWav == InitAudio /\ [][NextWav]_vars

(***************************************************************************)
(* Properties.                                                             *)
(***************************************************************************)
\* Every per-call map of StreamingClient, in the order of its constructor.
PerCallMaps ==
    <<streamingSessions, audioProcessors, transcriptionBuffers, playbackQueues,
      isTranscribing, isPlayingBack>>

\* This step handled a media message with the samples s for the live call u.
MediaStep(u, s) ==
    /\ s # << >>
    /\ Live(u)
    /\ u \in DOMAIN streamingSessions'
    /\ streamingSessions'[u].inc = streamingSessions[u].inc
    /\ streamingSessions'[u].totalAudioMs =
          streamingSessions[u].totalAudioMs + (Count(s) * 1000) \div sampleRate

\* The flush condition of u holds once the samples s are added.
FlushDue(u, s) == shouldSendToAPI(addSamples(audioProcessors[u], s, now), now)

FlagSet(flags, u) == u \in DOMAIN flags /\ flags[u] = TRUE

\* The entries of u are the same before and after this step.
SameEntry(before, after, u) ==
    /\ u \in DOMAIN before <=> u \in DOMAIN after
    /\ u \in DOMAIN before => after[u] = before[u]

\* This step ended the run p of processAudioChunk.
Exits(p) == BagIn(p, pipelines) /\ pipelines' = pipelines (-) One(p)

\* C1: at every instant, each call id has at most one run of processAudioChunk
\* past its isTranscribing guard and not yet finished.
C1_AtMostOneTranscribePipeline == \A u \in Ucids : InFlight(u) <= 1

\* C3: every end of a run of processAudioChunk that passed the guard leaves
\* isTranscribing false for its call (also when the collaborator threw, and
\* when validation failed before the collaborator was called), and a flush-due
\* media message for a call whose flag is not set starts a new attempt: a new
\* run in flight, or a run that ended at once on the quality gate.
C3_ExitClearsTranscribing ==
    [][\A u \in Ucids :
         /\ (\E p \in BagToSet(pipelines) : p.ucid = u /\ Exits(p))
               => (u \in DOMAIN isTranscribing' /\ isTranscribing'[u] = FALSE)
         /\ \A s \in Packets :
               (MediaStep(u, s) /\ FlushDue(u, s) /\ ~FlagSet(isTranscribing, u))
               => \/ /\ InFlight(u)' = InFlight(u) + 1
                     /\ isTranscribing'[u] = TRUE
                  \/ /\ pipelines' = pipelines
                     /\ isTranscribing'[u] = FALSE
                     /\ audioProcessors'[u].totalSamples = 0]_vars

\* A run ended with success for a live call, its flag is clear, and it has no
\* run in flight.
C3_Witness ==
    \E u \in Ucids :
        /\ Live(u)
        /\ streamingSessions[u].transcriptionChunks >= 1
        /\ u \in DOMAIN isTranscribing /\ isTranscribing[u] = FALSE
        /\ InFlight(u) = 0

\* C4: once stream_end has been handled for a ucid, and until a new
\* stream_start for it, no per-call map of StreamingClient has an entry for it.
C4_EndedCallHasNoEntries ==
    \A u \in Ucids :
        callState[u] = "ended" =>
            \A i \in 1..Len(PerCallMaps) : u \notin DOMAIN PerCallMaps[i]

\* C5: between pause_transcription and resume_transcription of a call no run
\* of processAudioChunk starts for it, and its session, AudioProcessor and
\* transcript stay in place.
C5_NoPipelineStartsWhilePaused ==
    [][\A u \in Ucids :
         (callState[u] = "paused" /\ callState'[u] = "paused")
         => /\ InFlight(u)' <= InFlight(u)
            /\ u \in DOMAIN streamingSessions'
            /\ u \in DOMAIN audioProcessors'
            /\ u \in DOMAIN transcriptionBuffers']_vars

\* C7: a flush-due media message for a call whose isTranscribing is true only
\* appends its samples: no run starts, the AudioProcessor is the old one with
\* the samples added, the chunk counters and both flags are unchanged; and the
\* end of a run starts no other run.
C7_FlushWhileTranscribingOnlyAppends ==
    [][\A u \in Ucids :
         /\ \A s \in Packets :
               (MediaStep(u, s) /\ FlushDue(u, s) /\ FlagSet(isTranscribing, u))
               => /\ pipelines' = pipelines
                  /\ audioProcessors'[u] = addSamples(audioProcessors[u], s, now)
                  /\ streamingSessions'[u].transcriptionChunks =
                        streamingSessions[u].transcriptionChunks
                  /\ streamingSessions'[u].playbackChunks =
                        streamingSessions[u].playbackChunks
                  /\ isTranscribing' = isTranscribing
                  /\ isPlayingBack' = isPlayingBack
                  /\ playbackQueues' = playbackQueues
         /\ (InFlight(u)' < InFlight(u))
               => InPhase(u, "transcribing")' <= InPhase(u, "transcribing")]_vars

\* A run is waiting for the transcription of a live call whose AudioProcessor
\* has since received more samples than the run was started with.
C7_Witness ==
    \E p \in BagToSet(pipelines) :
        /\ p.phase = "transcribing"
        /\ InFlight(p.ucid) = 1
        /\ Live(p.ucid)
        /\ audioProcessors[p.ucid].inc = p.inc
        /\ audioProcessors[p.ucid].totalSamples > Count(p.wav.data)
        /\ FlagSet(isTranscribing, p.ucid)

\* C8: at every instant, each call id has at most one run of
\* generateAndPlayResponse past its isPlayingBack guard and not yet finished.
C8_AtMostOneResponsePipeline == \A u \in Ucids : InPhase(u, "responding") <= 1

\* C9: when a run of processAudioChunk ends for a live call, whatever its
\* outcome, the AudioProcessor of the call is empty in the state where
\* isTranscribing has been cleared.
C9_ProcessorResetAfterEveryRun ==
    [][\A p \in BagToSet(pipelines) :
         (/\ Exits(p)
          /\ Live(p.ucid)
          /\ audioProcessors[p.ucid].inc = p.inc
          /\ streamingSessions[p.ucid].inc = p.inc)
         => /\ audioProcessors'[p.ucid].samples = << >>
            /\ audioProcessors'[p.ucid].totalSamples = 0]_vars

\* C10: a media message for the call a leaves the entries of every other call
\* b in every per-call map as they were, and starts or ends no run of b.
C10_MediaTouchesOnlyItsCall ==
    [][\A a \in Ucids, b \in Ucids, s \in Packets :
         (a # b /\ MediaStep(a, s))
         => /\ \A i \in 1..Len(PerCallMaps) :
                  SameEntry(PerCallMaps[i], PerCallMaps[i]', b)
            /\ InFlight(b)' = InFlight(b)]_vars

\* Both calls are live and hold different, positive numbers of samples.
C10_Witness ==
    /\ \A u \in Ucids : Live(u) /\ audioProcessors[u].totalSamples > 0
    /\ audioProcessors["A"].totalSamples # audioProcessors["B"].totalSamples

\* C2: when the grace timer of a stop fires after a newer start of the same
\* ucid, the ucid-to-connection mapping is still there afterwards.
C2_OvertakenTimerKeepsMapping ==
    [][(/\ timers # << >>
        /\ timers' = Tail(timers)
        /\ Head(timers).overtaken)
       => Head(timers).ucid \in DOMAIN ucidToConnection']_vars

\* C6: when a stop handler goes on after one of its awaits and a start of the
\* same ucid has been handled in between, it leaves currentCall, the audio
\* buffer and the transcription session of that ucid in place.
C6_StopCleanupKeepsLaterStart ==
    [][\A i \in 1..Len(stopHandlers) :
         (stopHandlers[i].overtaken /\ StopResume(i))
         => LET ucid == stopHandlers[i].ucid
            IN  /\ (currentCall # Null /\ currentCall.ucid = ucid)
                      => currentCall' = currentCall
                /\ ucid \in DOMAIN audioBuffers => ucid \in DOMAIN audioBuffers'
                /\ ucid \in DOMAIN transcriptionSessions
                      => ucid \in DOMAIN transcriptionSessions']_vars

\* C11: while both calls have had their start and not yet their stop,
\* StreamClient serves each of them: media of either passes the guard of
\* handleMediaEvent and a stop of either passes the guard of handleStopEvent
\* (a message whose ucid fails the guard is dropped without any effect).
C11_BothStartedCallsAreServed ==
    started = Ucids => \A u \in Ucids : isCurrentCall(u)

\* C12: a call of sendAudioToOzonetel or sendControlMessage for a ucid that has
\* no mapped connection, or whose mapped connection is not open, returns false,
\* transmits nothing and leaves the ucid-to-connection map and the stored last
\* samples as they were.
C12_SendWithoutOpenConnectionFails ==
    [][(/\ lastSend' # Null
        /\ ~(/\ lastSend'.ucid \in DOMAIN ucidToConnection
             /\ ucidToConnection[lastSend'.ucid] \in connections))
       => /\ lastSend'.ok = FALSE
          /\ lastSend'.sent = << >>
          /\ ucidToConnection' = ucidToConnection
          /\ lastSamples' = lastSamples]_vars

\* A send that failed for a ucid that is mapped, to a connection that has closed.
C12_Witness ==
    /\ lastSend # Null
    /\ lastSend.ok = FALSE
    /\ lastSend.ucid \in DOMAIN ucidToConnection
    /\ ucidToConnection[lastSend.ucid] \notin connections
    /\ lastSend.ucid \in DOMAIN lastSamples

Abs(x) == IF x < 0 THEN -x ELSE x

\* C13: a successful sendAudioToOzonetel of N samples transmits ceil(N/400)
\* packets, each of 400 samples with numberOfFrames 400; the samples after the
\* last real one in the last packet fade out from that sample: they start at
\* its value, keep its sign and never grow, and end at that value divided by
\* the number of padded samples, rounded.
C13_PacketsOf400WithFadeout ==
    [][(lastSend' # Null /\ lastSend'.fn = "audio" /\ lastSend'.ok)
         => LET sent == lastSend'.sent
                N == lastSend'.given
                rest == N % PACKET_SIZE
                last == sent[Len(sent)].samples
            IN  /\ Len(sent) * PACKET_SIZE >= N
                /\ Len(sent) * PACKET_SIZE < N + PACKET_SIZE
                /\ \A k \in 1..Len(sent) :
                      /\ Len(sent[k].samples) = PACKET_SIZE
                      /\ sent[k].numberOfFrames = PACKET_SIZE
                /\ rest # 0 =>
                      /\ last[rest + 1] = last[rest]
                      /\ \A i \in (rest + 1)..(PACKET_SIZE - 1) :
                            /\ Abs(last[i + 1]) <= Abs(last[i])
                            /\ last[i + 1] * last[rest] >= 0
                      /\ 2 * (PACKET_SIZE - rest) * Abs(last[PACKET_SIZE])
                            <= 2 * Abs(last[rest]) + (PACKET_SIZE - rest)]_vars

\* A send of 950 samples went out as packets whose last one was padded from a
\* sample that is not zero.
C13_Witness ==
    /\ lastSend # Null
    /\ lastSend.ok
    /\ Len(lastSend.sent) = 3
    /\ lastSend.sent[3].samples[150] # 0
    /\ lastSend.sent[3].samples[151] # 0

\* C14: shouldSendToAPI returns true exactly when the accumulated duration is
\* at least maxAudioDuration, or the time since the last voice packet or reset
\* is at least silenceThreshold and the duration is at least minAudioDuration.
C14_ShouldSendExactly ==
    (lastSend # Null /\ lastSend.fn = "shouldSendToAPI")
    => LET p == audioProcessors[TheCall]
           atMax == p.totalSamples * 1000 >= maxAudioDuration * sampleRate
           atMin == p.totalSamples * 1000 >= minAudioDuration * sampleRate
           quiet == now - p.lastAudioTime >= silenceThreshold
       IN  /\ lastSend.ok <=> (atMax \/ (quiet /\ atMin))
           /\ (atMax /\ ~quiet) => lastSend.ok
           /\ (quiet /\ ~atMin) => ~lastSend.ok

\* shouldSendToAPI returned true for a processor that reached the maximum with
\* a voice packet as its last one, and no time since.
C14_Witness ==
    /\ lastSend # Null
    /\ lastSend.fn = "shouldSendToAPI"
    /\ lastSend.ok
    /\ audioProcessors[TheCall].lastAudioTime = now
    /\ audioProcessors[TheCall].consecutiveSilentPackets = 0
    /\ audioProcessors[TheCall].totalSamples * 1000 >= maxAudioDuration * sampleRate
    /\ now > 0

\* The ucids with a delayed unmap pending in the timers ts.
Pending(ts) == {ts[i].ucid : i \in 1..Len(ts)}

\* C15: from the handling of a stop for a ucid until the timer of that stop
\* fires, the ucid stays mapped: no step removes the mapping of a ucid that
\* still has a delayed unmap pending after the step.
C15_MappedUntilOwnTimerFires ==
    [][\A u \in Ucids :
         (u \in DOMAIN ucidToConnection /\ u \in Pending(timers'))
         => u \in DOMAIN ucidToConnection']_vars

\* C16: when the last delayed unmap of a ucid fires with no start since its
\* stop, neither ucidToConnection nor _lastSamples holds the ucid afterwards.
C16_NothingLeftAfterGrace ==
    [][(timers # << >> /\ timers' = Tail(timers))
         => LET u == Head(timers).ucid
            IN  (~Head(timers).overtaken /\ u \notin started /\ u \notin Pending(timers'))
                => /\ u \notin DOMAIN ucidToConnection'
                   /\ u \notin DOMAIN lastSamples']_vars

\* No per-call map of StreamingClient has an entry for u.
NoEntries(u) == \A i \in 1..Len(PerCallMaps) : u \notin DOMAIN PerCallMaps[i]

\* C17: every handling of stream_end for a ucid, the first and any later one,
\* leaves no per-call map with an entry for it and the entries and runs of
\* every other call as they were; the deletes of cleanupSession done once more
\* in the state it leaves change no per-call map.
C17_StreamEndTwiceAsOnce ==
    [][\A u \in Ucids :
         handleStreamEnd(u)
         => /\ NoEntries(u)'
            /\ \A v \in Ucids \ {u} :
                  /\ \A i \in 1..Len(PerCallMaps) :
                        SameEntry(PerCallMaps[i], PerCallMaps[i]', v)
                  /\ InFlight(v)' = InFlight(v)
            /\ \A i \in 1..Len(PerCallMaps) :
                  Del(PerCallMaps[i]', u) = PerCallMaps[i]']_vars

\* A call that has ended holds no entry while the other call is live with audio
\* in its processor: a stream_end repeated here meets nothing to remove.
C17_Witness ==
    \E u \in Ucids, v \in Ucids :
        /\ u # v
        /\ callState[u] = "ended"
        /\ NoEntries(u)
        /\ Live(v)
        /\ audioProcessors[v].totalSamples > 0

\* C18: when the response collaborator returns false or throws for a call,
\* the step that takes the result keeps the session, the AudioProcessor and the
\* transcript of the call in place with the transcript as it was, leaves
\* isPlayingBack false, does not count a playback, and leaves the entries and
\* runs of every other call as they were.
C18_FailedResponseIsContained ==
    [][\A p \in BagToSet(pipelines), result \in {"false", "throw"} :
         ResponseDone(p, result)
         => LET u == p.ucid
            IN  /\ u \in DOMAIN streamingSessions => u \in DOMAIN streamingSessions'
                /\ u \in DOMAIN audioProcessors => u \in DOMAIN audioProcessors'
                /\ SameEntry(transcriptionBuffers, transcriptionBuffers', u)
                /\ u \in DOMAIN isPlayingBack' /\ isPlayingBack'[u] = FALSE
                /\ u \in DOMAIN streamingSessions =>
                      streamingSessions'[u].playbackChunks
                          = streamingSessions[u].playbackChunks
                /\ \A v \in Ucids \ {u} :
                      /\ \A i \in 1..Len(PerCallMaps) :
                            SameEntry(PerCallMaps[i], PerCallMaps[i]', v)
                      /\ InFlight(v)' = InFlight(v)]_vars

\* A live call whose only finished run appended a transcription and asked for
\* a response that was not played: nothing is in flight, the transcript and the
\* session are there, isPlayingBack is false and no playback was counted.
C18_Witness ==
    \E u \in Ucids :
        /\ Live(u)
        /\ InFlight(u) = 0
        /\ streamingSessions[u].transcriptionChunks = 1
        /\ streamingSessions[u].playbackChunks = 0
        /\ u \in DOMAIN transcriptionBuffers
        /\ transcriptionBuffers[u].finalText # << >>
        /\ u \in DOMAIN isPlayingBack /\ isPlayingBack[u] = FALSE

\* C19: a media packet with sampleRate 8000 of a call whose start has been
\* handled, and that has had no stop since, is buffered and counted: the call is
\* the one handleMediaEvent accepts media for and its audio buffer is there.
C19_StartedCallMediaIsBuffered ==
    \A u \in started : isCurrentCall(u) /\ u \in DOMAIN audioBuffers

\* C20: after stream_end has been handled for a ucid and before a new
\* stream_start for it, no step emits a transcription or a response_played
\* event for that ucid.
C20_NoEventAfterStreamEnd ==
    [][/\ \A p \in BagToSet(pipelines), result \in TranscriptionResults :
            (callState[p.ucid] = "ended" /\ TranscriptionDone(p, result))
            => ~emitsTranscription(result)
       /\ \A p \in BagToSet(pipelines), result \in ResponseResults :
            (callState[p.ucid] = "ended" /\ ResponseDone(p, result))
            => ~emitsResponsePlayed(result)]_vars

\* C21: when the transcription collaborator returns an utterance of the
\* hallucination list, the step that takes it leaves every transcript as it
\* was, emits no transcription event, starts no response, ends the run and
\* leaves isTranscribing false.
C21_RejectedTextIsSkipped ==
    [][\A p \in BagToSet(pipelines) :
         TranscriptionDone(p, [kind |-> "text", text |-> TextYou])
         => /\ transcriptionBuffers' = transcriptionBuffers
            /\ ~emitsTranscription([kind |-> "text", text |-> TextYou])
            /\ isPlayingBack' = isPlayingBack
            /\ \A u \in Ucids : InPhase(u, "responding")' = InPhase(u, "responding")
            /\ Exits(p)
            /\ p.ucid \in DOMAIN isTranscribing' /\ isTranscribing'[p.ucid] = FALSE]_vars

\* A live call whose only counted run left the transcript empty: its
\* transcription was rejected, nothing is in flight and the flag is false.
C21_Witness ==
    \E u \in Ucids :
        /\ Live(u)
        /\ InFlight(u) = 0
        /\ streamingSessions[u].transcriptionChunks = 1
        /\ u \in DOMAIN transcriptionBuffers
        /\ transcriptionBuffers[u].finalText = << >>
        /\ u \in DOMAIN isTranscribing /\ isTranscribing[u] = FALSE
        /\ u \in DOMAIN isPlayingBack /\ isPlayingBack[u] = FALSE

\* x lies between a and b, ends included.
Between(x, a, b) == (a <= x /\ x <= b) \/ (b <= x /\ x <= a)

\* C22: with the last emitted sample L and the chunk S, _applyCrossfade returns
\* S when L is 0 or absent; otherwise, with f = min(20, len(S)), the first
\* output sample is L, each of the first f is the nearest integer to
\* L*(1 - i/f) + S[i]*(i/f) and lies between L and S[i], and the rest is S.
C22_CrossfadeOnLinearPath ==
    (lastSend # Null /\ lastSend.fn = "_applyCrossfade")
    => LET S == lastSend.input
           out == lastSend.output
           L == IF TheCall \in DOMAIN lastSamples THEN lastSamples[TheCall] ELSE 0
           f == Min(FADE_LENGTH, Len(S))
       IN  /\ Len(out) = Len(S)
           /\ L = 0 => out = S
           /\ (L # 0 /\ S # << >>) =>
                 /\ out[1] = L
                 /\ \A i \in 1..f :
                       /\ Between(out[i], L, S[i])
                       /\ 2 * Abs(f * out[i] - (L * (f - (i - 1)) + S[i] * (i - 1))) <= f
                 /\ \A i \in (f + 1)..Len(S) : out[i] = S[i]

\* A chunk longer than the fade was crossfaded from a last sample that is not
\* zero: its first sample was replaced and the samples after the fade kept.
C22_Witness ==
    /\ lastSend # Null
    /\ lastSend.fn = "_applyCrossfade"
    /\ TheCall \in DOMAIN lastSamples /\ lastSamples[TheCall] # 0
    /\ Len(lastSend.input) > FADE_LENGTH
    /\ lastSend.output[1] # lastSend.input[1]
    /\ lastSend.output[2] # lastSend.output[1]
    /\ lastSend.output[FADE_LENGTH + 1] = lastSend.input[FADE_LENGTH + 1]

\* C23: for a non-empty array of 16-bit samples the output of _removeDCOffset
\* has the length of the input and a mean of absolute value at most 0.5.
C23_MeanWithinHalf ==
    (lastSend # Null /\ lastSend.fn = "_removeDCOffset" /\ lastSend.input # << >>)
    => /\ Len(lastSend.output) = Len(lastSend.input)
       /\ 2 * Abs(SumOf(lastSend.output)) <= Len(lastSend.output)

\* An array with a mean far from zero and not an integer was centred.
C23_Witness ==
    /\ lastSend # Null
    /\ lastSend.fn = "_removeDCOffset"
    /\ Len(lastSend.input) = ShortLen
    /\ SumOf(lastSend.input) % ShortLen # 0
    /\ Abs(SumOf(lastSend.input)) > INT16_MAX
    /\ lastSend.output # lastSend.input

\* Reading a WAV: the little-endian reads of Buffer at a byte offset.
readUInt16LE(bytes, offset) == bytes[offset + 1] + 256 * bytes[offset + 2]

readUInt32LE(bytes, offset) ==
    readUInt16LE(bytes, offset) + 65536 * readUInt16LE(bytes, offset + 2)

readInt16LE(bytes, offset) ==
    IF readUInt16LE(bytes, offset) >= 32768
    THEN readUInt16LE(bytes, offset) - 65536
    ELSE readUInt16LE(bytes, offset)

\* C24: for a processor holding N >= 1 samples toWAVBuffer returns 44 + 2N
\* bytes, each in 0..255, whose header declares PCM, 1 channel, the sample rate
\* of the processor, 16 bits and a data size of 2N, and whose data section
\* reads back as the samples of the processor; for an empty processor it
\* returns null.
C24_WavRoundTrip ==
    (lastSend # Null /\ lastSend.fn = "toWAVBuffer")
    => LET bytes == lastSend.output
           held == Flatten(audioProcessors[TheCall].samples)
           N == Len(held)
       IN  IF N = 0 THEN bytes = Null
           ELSE /\ bytes # Null
                /\ Len(bytes) = 44 + 2 * N
                /\ \A k \in 1..Len(bytes) : bytes[k] \in 0..255
                /\ SubSeq(bytes, 1, 4) = <<82, 73, 70, 70>>
                /\ readUInt32LE(bytes, 4) = 44 + 2 * N - 8
                /\ readUInt16LE(bytes, 20) = 1
                /\ readUInt16LE(bytes, 22) = 1
                /\ readUInt32LE(bytes, 24) = sampleRate
                /\ readUInt16LE(bytes, 34) = 16
                /\ readUInt32LE(bytes, 40) = 2 * N
                /\ \A i \in 1..N : readInt16LE(bytes, 44 + 2 * (i - 1)) = held[i]

\* The WAV of a processor that holds a frame of the lowest value and then a
\* frame of 255.
C24_Witness ==
    /\ lastSend # Null
    /\ lastSend.fn = "toWAVBuffer"
    /\ lastSend.output # Null
    /\ audioProcessors[TheCall].samples
          = << [n |-> PACKET_SIZE, amp |-> INT16_MIN], [n |-> PACKET_SIZE, amp |-> 255] >>

(***************************************************************************)
(* C25: at most one reconnect timeout is pending and it is the one in the  *)
(* slot reconnectTimer; a step that leaves a pending timeout pending       *)
(* (scheduleReconnect called while it is pending, a close event) leaves    *)
(* the slot and the pending timeouts as they were; the open event of a     *)
(* socket and the firing of the timeout take the timeout out of the slot;  *)
(* and after initialize a socket is only ever made by a timeout that       *)
(* fires, so close events and failed connects make one attempt per         *)
(* interval.                                                               *)
(***************************************************************************)
C25_OneReconnectTimer ==
    [][ /\ Cardinality(timeouts') <= 1
        /\ timeouts' = IF reconnectTimer' = Null THEN {} ELSE {reconnectTimer'}
        /\ (reconnectTimer # Null /\ reconnectTimer \in timeouts')
               => /\ reconnectTimer' = reconnectTimer
                  /\ timeouts' = timeouts
                  /\ nextTimer' = nextTimer
        /\ (\E s \in DOMAIN sockets : sockets[s] = "CONNECTING" /\ s \in DOMAIN sockets'
                                        /\ sockets'[s] = "OPEN")
               => reconnectTimer' = Null /\ timeouts' = {}
        /\ (reconnectTimer # Null /\ reconnectTimer \notin timeouts')
               => reconnectTimer' # reconnectTimer
        /\ nextSocket' # nextSocket
               => /\ nextSocket' = nextSocket + 1
                  /\ reconnectTimer' = Null
                  /\ \/ lifecycle = "constructed"
                     \/ reconnectTimer # Null /\ reconnectTimer \notin timeouts'
      ]_vars

\* scheduleReconnect was called while a timeout was pending, and one is pending.
C25_Witness ==
    /\ lastSend = [fn |-> "scheduleReconnect", pending |-> TRUE]
    /\ reconnectTimer # Null
    /\ timeouts = {reconnectTimer}
    /\ sockets # EmptyMap

(***************************************************************************)
(* C30: after shutdown() no reconnect timeout is pending and no socket is  *)
(* made, also when the close event of the socket shutdown() closed comes   *)
(* afterwards.                                                             *)
(***************************************************************************)
C30_QuietAfterShutdown ==
    lifecycle = "shutdown" => /\ reconnectTimer = Null
                              /\ timeouts = {}
                              /\ thisWs = Null

\* The messages the two handleMessage have no case for.
Dropped(message) ==
    \/ message.malformed
    \/ message.to = "StreamServer" /\ message.event \notin {"start", "stop", "media"}
    \/ /\ message.to = "StreamingClient"
       /\ message.event \notin {"stream_start", "audio_chunk", "media", "stream_end",
                                 "control"}
    \/ /\ message.to = "StreamingClient"
       /\ message.event = "control"
       /\ message.command \notin {"set_language", "set_voice", "pause_transcription",
                                   "resume_transcription"}

(***************************************************************************)
(* C26: a step that handles a malformed payload, an event no case names    *)
(* or a control command no case names leaves the connections registered,   *)
(* the ucid-to-connection map, the crossfade state, every per-call map of  *)
(* StreamingClient and of StreamClient, and the connection of the client   *)
(* as they were.                                                           *)
(***************************************************************************)
C26_DroppedMessageChangesNothing ==
    [][ (received' # Null /\ Dropped(received'))
            => UNCHANGED <<connections, ucidToConnection, lastSamples, timers,
                           currentCall, audioBuffers, transcriptionSessions,
                           streamingSessions, audioProcessors, transcriptionBuffers,
                           playbackQueues, isTranscribing, isPlayingBack, destroyed,
                           thisWs, sockets, isConnected>>
      ]_vars

\* An unknown control command was handled for a call that has a session on
\* both sides.
C26_Witness ==
    /\ received # Null
    /\ received.to = "StreamingClient"
    /\ received.event = "control"
    /\ received.command = "unknown"
    /\ received.ucid \in DOMAIN streamingSessions
    /\ received.ucid \in DOMAIN isTranscribing
    /\ received.ucid \in DOMAIN ucidToConnection
    /\ received.ucid \in DOMAIN lastSamples

\* The sequence a begins the sequence b.
IsPrefix(a, b) == Len(a) <= Len(b) /\ SubSeq(b, 1, Len(a)) = a

(***************************************************************************)
(* C27: while the transcript of a call is the one its stream_start made,   *)
(* every step leaves finalText a prefix of its next value, and the value   *)
(* changes only in a step in which a transcription of that call returned a *)
(* text that the filter does not reject, by that text (after a space when  *)
(* the transcript was not empty) being appended.                           *)
(***************************************************************************)
C27_TranscriptOnlyGrows ==
    [][\A u \in Ucids :
         (/\ u \in DOMAIN transcriptionBuffers
          /\ u \in DOMAIN transcriptionBuffers'
          /\ transcriptionBuffers'[u].inc = transcriptionBuffers[u].inc)
         => LET old == transcriptionBuffers[u].finalText
                new == transcriptionBuffers'[u].finalText
            IN  /\ IsPrefix(old, new)
                /\ new # old
                     => \E p \in BagToSet(pipelines), r \in TranscriptionResults :
                           /\ p.ucid = u /\ p.phase = "transcribing"
                           /\ r.kind = "text" /\ r.text # TextYou
                           /\ TranscriptionDone(p, r)
                           /\ new = old \o (IF old # << >> THEN <<" ">> ELSE << >>)
                                        \o r.text]_vars

\* The transcript of a call has grown twice.
C27_Witness ==
    \E u \in DOMAIN transcriptionBuffers :
        transcriptionBuffers[u].finalText = TextOk \o <<" ">> \o TextOk

(***************************************************************************)
(* C28: for a processor that was given a packet of voice and holds less    *)
(* than the maximum duration, shouldSendToAPI returns false when less than *)
(* silenceThreshold has passed since the last packet of voice, whatever    *)
(* silent packets came after it, and returns true when silenceThreshold or *)
(* more has passed and the duration is at least minAudioDuration.          *)
(***************************************************************************)
C28_SendAfterSilence ==
    (/\ lastSend # Null /\ lastSend.fn = "shouldSendToAPI"
     /\ received # Null
     /\ getDurationMs(audioProcessors[TheCall]) < maxAudioDuration)
    => LET silence == now - received.lastVoice
       IN  /\ silence < silenceThreshold => ~lastSend.ok
           /\ (silence >= silenceThreshold
               /\ getDurationMs(audioProcessors[TheCall]) >= minAudioDuration)
                   => lastSend.ok

\* shouldSendToAPI returned true a second after the last packet of voice, for
\* a processor that was given silent packets since.
C28_Witness ==
    /\ lastSend # Null /\ lastSend.fn = "shouldSendToAPI" /\ lastSend.ok
    /\ received # Null
    /\ now - received.lastVoice = silenceThreshold
    /\ audioProcessors[TheCall].consecutiveSilentPackets >= 2
    /\ getDurationMs(audioProcessors[TheCall]) < maxAudioDuration

(***************************************************************************)
(* C29: the WAV a run of processAudioChunk hands to the transcription      *)
(* collaborator is the content of the processor when the run starts, and   *)
(* when the run ends with its processor still the one of the call, holding *)
(* more samples than the WAV because packets were appended while the       *)
(* transcription was in flight, the step that ends the run leaves the      *)
(* processor empty, so that those samples can be in no later WAV.          *)
(***************************************************************************)
C29_InFlightSamplesAreDropped ==
    [][\A u \in Ucids :
         /\ \A q \in BagToSet(pipelines') :
               (/\ q.ucid = u /\ q.phase = "transcribing"
                /\ CopiesIn(q, pipelines') > CopiesIn(q, pipelines))
               => /\ u \in DOMAIN audioProcessors'
                  /\ q.inc = audioProcessors'[u].inc
                  /\ q.wav = toWAVBuffer(audioProcessors'[u])
         /\ \A p \in BagToSet(pipelines) :
               (/\ p.ucid = u
                /\ Exits(p)
                /\ p.inc \notin destroyed
                /\ u \in DOMAIN audioProcessors
                /\ audioProcessors[u].inc = p.inc
                /\ Count(audioProcessors[u].samples) > Count(p.wav.data))
               => /\ u \in DOMAIN audioProcessors'
                  /\ audioProcessors'[u].samples = << >>]_vars

(***************************************************************************)
(* C31: only stream_start creates per-call entries: a step after which a   *)
(* ucid has an entry in a per-call map of StreamingClient that it did not  *)
(* have before is the handleStreamStart of that ucid.                      *)
(***************************************************************************)
C31_OnlyStreamStartCreatesEntries ==
    [][\A u \in Ucids : \A i \in 1..Len(PerCallMaps) :
         (u \notin DOMAIN PerCallMaps[i] /\ u \in DOMAIN PerCallMaps[i]')
         => /\ nextInc' = nextInc + 1
            /\ u \in DOMAIN streamingSessions'
            /\ streamingSessions'[u].inc = nextInc]_vars

\* The k-th sample of the packets sent, counted through the packets.
SampleAt(sent, k) == sent[((k - 1) \div PACKET_SIZE) + 1].samples[((k - 1) % PACKET_SIZE) + 1]

(***************************************************************************)
(* C32: a successful sendAudioToOzonetel of N > 0 samples for a ucid       *)
(* leaves as the stored last sample of that ucid the N-th sample it        *)
(* transmitted, which is the last shaped sample and not the padding after  *)
(* it; it leaves the stored samples of the other ucids as they were; and   *)
(* when the value stored before the send was not zero, the first sample    *)
(* transmitted is that value.                                              *)
(***************************************************************************)
C32_LastSampleIsLastShaped ==
    [][(/\ lastSend' # Null /\ lastSend'.fn = "audio" /\ lastSend'.ok
        /\ lastSend'.given > 0)
         => LET u == lastSend'.ucid
                sent == lastSend'.sent
                N == lastSend'.given
            IN  /\ u \in DOMAIN lastSamples'
                /\ lastSamples'[u] = SampleAt(sent, N)
                /\ \A v \in Ucids \ {u} : SameEntry(lastSamples, lastSamples', v)
                /\ (u \in DOMAIN lastSamples /\ lastSamples[u] # 0)
                      => SampleAt(sent, 1) = lastSamples[u]]_vars

\* A send of 950 samples whose padding ends on another value than the one
\* stored, while the other call has a stored sample that is not zero.
C32_Witness ==
    /\ lastSend # Null /\ lastSend.fn = "audio" /\ lastSend.ok
    /\ lastSend.given = 950
    /\ lastSamples[lastSend.ucid] # 0
    /\ lastSamples[lastSend.ucid] = SampleAt(lastSend.sent, 950)
    /\ lastSamples[lastSend.ucid] # SampleAt(lastSend.sent, 3 * PACKET_SIZE)
    /\ \E v \in DOMAIN lastSamples : v # lastSend.ucid /\ lastSamples[v] # 0

(***************************************************************************)
(* C33: the packets a successful sendAudioToOzonetel transmits are, read   *)
(* in their order, the N samples of smoothedSamples (DC offset removed,    *)
(* then crossfaded from the stored sample) followed by the padding that    *)
(* fills                                                                   *)
(* the last packet; the padding value at position i of padLength is        *)
(* last * (1 - i / padLength) rounded to a nearest integer, last being the *)
(* N-th sample, so it starts at last and its magnitudes never increase.    *)
(* The send is one step: no other send transmits between its packets.      *)
(***************************************************************************)
C33_PacketsAreShapedThenPadding ==
    [][(lastSend' # Null /\ lastSend'.fn = "audio" /\ lastSend'.ok)
         => LET sent == lastSend'.sent
                shaped == lastSend'.shaped
                N == lastSend'.given
                rest == N % PACKET_SIZE
                padLength == PACKET_SIZE - rest
                tail == sent[Len(sent)].samples
            IN  /\ Len(shaped) = N
                /\ Len(sent) = (N + PACKET_SIZE - 1) \div PACKET_SIZE
                /\ \A k \in 1..(N \div PACKET_SIZE) :
                      sent[k].samples =
                          SubSeq(shaped, (k - 1) * PACKET_SIZE + 1, k * PACKET_SIZE)
                /\ rest # 0 =>
                      /\ Len(tail) = PACKET_SIZE
                      /\ SubSeq(tail, 1, rest) = SubSeq(shaped, N - rest + 1, N)
                      /\ tail[rest + 1] = shaped[N]
                      /\ \A i \in 0..(padLength - 1) :
                            /\ 2 * Abs(padLength * tail[rest + 1 + i]
                                         - shaped[N] * (padLength - i)) <= padLength
                            /\ Abs(tail[rest + 1 + i]) <= Abs(tail[rest + i])]_vars

\* A send of 401 samples, crossfaded from a stored sample, went out as two
\* packets, the second one a sample that is not zero and 399 of padding.
C33_Witness ==
    /\ lastSend # Null /\ lastSend.fn = "audio" /\ lastSend.ok
    /\ lastSend.given = 401
    /\ Len(lastSend.sent) = 2
    /\ SampleAt(lastSend.sent, 401) # 0
    /\ SampleAt(lastSend.sent, 402) = SampleAt(lastSend.sent, 401)
    /\ Abs(SampleAt(lastSend.sent, 800)) < Abs(SampleAt(lastSend.sent, 401))
    /\ SampleAt(lastSend.sent, 1) # removeDCOffset(Tone(401))[1]

\* The buffer is shorter than 1000 ms or its RMS is below the floor of 250.
BelowQuality(samples) ==
    \/ Count(samples) * 1000 < 1000 * sampleRate
    \/ SumSq(samples) < 250 * 250 * Frames(samples)

(***************************************************************************)
(* C34: a media message that makes the flush due for a call that is not    *)
(* transcribing, with a buffer that fails the quality gate, starts no run  *)
(* (the transcription collaborator is not called), leaves the transcript   *)
(* and transcriptionChunks as they were, and leaves the AudioProcessor     *)
(* empty and isTranscribing false.                                         *)
(***************************************************************************)
C34_QualityGateSkipsChunk ==
    [][\A u \in Ucids, s \in Packets :
         (/\ MediaStep(u, s)
          /\ FlushDue(u, s)
          /\ ~FlagSet(isTranscribing, u)
          /\ u \in DOMAIN transcriptionBuffers
          /\ BelowQuality(Push(audioProcessors[u].samples, s)))
         => /\ pipelines' = pipelines
            /\ transcriptionBuffers' = transcriptionBuffers
            /\ streamingSessions'[u].transcriptionChunks
                  = streamingSessions[u].transcriptionChunks
            /\ u \in DOMAIN audioProcessors'
            /\ audioProcessors'[u].samples = << >>
            /\ audioProcessors'[u].totalSamples = 0
            /\ u \in DOMAIN isTranscribing' /\ isTranscribing'[u] = FALSE]_vars

\* A call that was given 4 s of audio, all of it dropped at the gate: no run
\* was counted or is in flight, the processor is empty, the flag is false.
C34_Witness ==
    \E u \in Ucids :
        /\ Live(u)
        /\ streamingSessions[u].totalAudioMs >= maxAudioDuration
        /\ streamingSessions[u].transcriptionChunks = 0
        /\ audioProcessors[u].samples = << >>
        /\ InFlight(u) = 0
        /\ pipelines = EmptyBag
        /\ u \in DOMAIN isTranscribing /\ isTranscribing[u] = FALSE
        /\ u \in DOMAIN transcriptionBuffers
        /\ transcriptionBuffers[u].finalText = << >>

(***************************************************************************)
(* C35: the handling of a stop for a ucid, which starts its grace delay,   *)
(* leaves the stored last sample of that ucid as it was, so that a send    *)
(* during the grace delay is crossfaded from it.                           *)
(***************************************************************************)
C35_LastSampleKeptDuringGrace ==
    [][\A u \in Ucids :
         (/\ Len(timers') = Len(timers) + 1
          /\ timers'[Len(timers')].ucid = u
          /\ u \in DOMAIN lastSamples
          /\ lastSamples[u] # 0)
         => /\ u \in DOMAIN lastSamples'
            /\ lastSamples'[u] = lastSamples[u]]_vars

(***************************************************************************)
(* C36: a media message with samples at 16000 Hz that is the first of its  *)
(* call (nothing was counted or buffered for the call yet) leaves the      *)
(* AudioProcessor of the call without samples and totalAudioMs at zero.    *)
(***************************************************************************)
C36_First16kPacketIgnored ==
    [][\A u \in Ucids, s \in Packets :
         (/\ Live(u)
          /\ s # << >>
          /\ streamingSessions[u].totalAudioMs = 0
          /\ audioProcessors[u].totalSamples = 0
          /\ handleAudioChunk(u, s, 16000))
         => /\ Live(u)'
            /\ audioProcessors'[u].totalSamples = 0
            /\ audioProcessors'[u].samples = << >>
            /\ streamingSessions'[u].totalAudioMs = 0]_vars

(***************************************************************************)
(* C37: totalSamples of an AudioProcessor is always the number of samples  *)
(* in its buffer; addSamples with an empty array changes nothing; reset()  *)
(* empties the buffer, zeroes totalSamples and consecutiveSilentPackets    *)
(* and sets lastAudioTime to the present, so that directly afterwards      *)
(* shouldSendToAPI() is false and toWAVBuffer() returns null.              *)
(***************************************************************************)
C37_BufferAccounting ==
    /\ [](audioProcessors[TheCall].totalSamples
              = Count(audioProcessors[TheCall].samples))
    /\ [][/\ AudioAdd(EmptyPacket) => audioProcessors' = audioProcessors
          /\ AudioReset =>
                LET processor == audioProcessors'[TheCall]
                IN  /\ processor.samples = << >>
                    /\ processor.totalSamples = 0
                    /\ processor.consecutiveSilentPackets = 0
                    /\ processor.lastAudioTime = now
                    /\ processor.inc = audioProcessors[TheCall].inc
                    /\ ~shouldSendToAPI(processor, now')
                    /\ toWAVBuffer(processor) = Null]_vars

\* shouldSendToAPI() was asked, and answered no, of a processor that was
\* reset after the clock had moved.
C37_Witness ==
    /\ lastSend # Null
    /\ lastSend.fn = "shouldSendToAPI"
    /\ ~lastSend.ok
    /\ audioProcessors[TheCall].samples = << >>
    /\ audioProcessors[TheCall].totalSamples = 0
    /\ audioProcessors[TheCall].lastAudioTime > 0

====
